---------------------------- MODULE Spec2Model ----------------------------
(***************************************************************************)
(* A model of the web-scraping core of scripts/server.js: the RSC payload  *)
(* extractor, the article-stub recoverer, the single-article metadata      *)
(* extractor and the Sanity block renderers.                               *)
(*                                                                         *)
(* Text is a sequence of symbols.  A symbol is one character ("a", "{",    *)
(* a quote, a backslash, ...) or a lexeme: a fixed run of characters that  *)
(* the inputs only ever contain as a whole ("title", "publishedOn", the    *)
(* call-site prefix).  Every function of the source is modelled over these *)
(* sequences the way the source computes it over characters.               *)
(***************************************************************************)
EXTENDS Integers, Sequences, FiniteSets, TLC

VARIABLES
    \* extractRSCPayloads
    html,            \* the page text
    srcLiterals,     \* the string literals the page was built from, in order
    doubleUnescape,  \* options.doubleUnescape
    lastIndex,       \* regex.lastIndex (1-based position of the next search)
    payloads,        \* the payloads array
    rscPc,           \* "scan" while the while-loop runs, "done" after return
    \* sanityBlocksToHtml
    blocks,          \* the argument of both renderers
    hIdx,            \* position of the for-of loop in blocks
    htmlOut,         \* the html array: the strings pushed so far
    currentList,     \* "ul", "ol" or "" (null)
    htmlResult,      \* the returned string
    hPc,             \* "loop", "done" after return, "thrown" after a TypeError
    \* sanityBlocksToMarkdown
    mIdx,            \* position of the for-of loop in blocks
    lines,           \* the lines array: the strings pushed so far
    listCounter,     \* the number of the last numbered item
    mdResult,        \* the returned string
    mPc,             \* "loop", "done" after return, "thrown" after a TypeError
    \* parseAnthropicArticles
    articlePayloads, \* the payloads argument: a sequence of texts
    feedUrl,         \* the feedUrl argument
    embedded,        \* the objects the payloads were written from (not read by the code)
    articles,        \* the stubs pushed so far
    seenSlugs,       \* the Set of slugs
    jsonPos,         \* where the loop over jsonStarts stands in the combined text
    parsedRanges,    \* <<start, end>> of the fragments parsed so far
    walkStack,       \* the values walkJsonForArticles has still to visit
    rxIndex,         \* lastIndex of the regular expression at work
    aPc,             \* "json", "walk", "pattern1", "pattern2", "arrays", "done"
    \* extractSingleArticleFromRSC
    pageData,        \* the data argument
    layout,          \* what the data was written from (not read by the code)
    result,          \* the result object
    typeIdx,         \* where the loop over ARTICLE_TYPES stands
    scanPos,         \* where the loop over jsonStarts stands
    sPc,             \* "type", "wide", "json", "done"
    \* the articles table and the admin routes
    dbArticles,      \* the rows of the articles table, by id
    dbCall,          \* the arguments of the last updateArticle call
    dbReturn,        \* what the last updateArticle call returned
    inFlight,        \* the articles an /api/translate request is awaiting
    dbPc,            \* "ready", "returned", or "thrown" after a SqliteError
    \* translate
    provider,        \* the provider argument
    failures,        \* what the provider answers: the errors of its requests, in order
    attempt,         \* the loop variable
    calls,           \* the provider requests made so far
    waits,           \* the delays slept so far, in milliseconds
    lastError,       \* the lastError variable
    tPc,             \* "switch", "call", "sleep", "returned", "thrown"
    \* the api_keys table
    apiKeys,         \* the rows of the api_keys table, by provider
    keysOut,         \* what the last getAllApiKeys call returned
    keyPc,           \* "ready", "listed"
    \* extractSanityBlocks
    sbData,          \* the data argument
    sbBody,          \* the array the data was written from, if any (not read by the code)
    sbBlocks,        \* the blocks array
    sbPc,            \* "find", "done"
    \* fetchWebFeed (server.js)
    fwFeed,          \* the feed that is fetched
    fwServer,        \* what the server and the network will do
    fwPc,            \* where fetchWebFeed is
    fwTimer,         \* the timer of setTimeout: armed, cleared or fired
    fwAborted,       \* controller.signal.aborted
    fwFiredAt,       \* where fetchWebFeed was when the timer fired
    fwPromise,       \* the promise fetchWebFeed returned
    \* translateArticle (batch-translate.js)
    chContent,       \* the content of the article
    chRemaining,     \* remaining
    chChunks,        \* chunks
    chPc             \* where the chunking of translateArticle is

rscVars == <<html, srcLiterals, doubleUnescape, lastIndex, payloads, rscPc>>
htmlVars == <<hIdx, htmlOut, currentList, htmlResult, hPc>>
mdVars == <<mIdx, lines, listCounter, mdResult, mPc>>

artVars == <<articlePayloads, feedUrl, embedded, articles, seenSlugs, jsonPos,
             parsedRanges, walkStack, rxIndex, aPc>>

oneVars == <<pageData, layout, result, typeIdx, scanPos, sPc>>

dbVars == <<dbArticles, dbCall, dbReturn, inFlight, dbPc>>

trVars == <<provider, failures, attempt, calls, waits, lastError, tPc>>

keyVars == <<apiKeys, keysOut, keyPc>>

sbVars == <<sbData, sbBody, sbBlocks, sbPc>>

fwVars == <<fwFeed, fwServer, fwPc, fwTimer, fwAborted, fwFiredAt, fwPromise>>

chVars == <<chContent, chRemaining, chChunks, chPc>>

moreVars == <<keyVars, sbVars, fwVars, chVars>>

vars == <<rscVars, blocks, htmlVars, mdVars, artVars, oneVars, dbVars, trVars, moreVars>>

\* A subsystem that is not called keeps its variables at these values
IdlePayloads ==
    /\ html = <<>> /\ srcLiterals = <<>> /\ doubleUnescape = TRUE
    /\ lastIndex = 1 /\ payloads = <<>> /\ rscPc = "idle"

IdleHtml ==
    /\ hIdx = 1 /\ htmlOut = <<>> /\ currentList = ""
    /\ htmlResult = <<>> /\ hPc = "idle"

IdleArticles ==
    /\ articlePayloads = <<>> /\ feedUrl = <<>> /\ embedded = <<>>
    /\ articles = <<>> /\ seenSlugs = {} /\ jsonPos = 1
    /\ parsedRanges = <<>> /\ walkStack = <<>> /\ rxIndex = 1 /\ aPc = "idle"

IdleSingle ==
    /\ pageData = <<>> /\ layout = <<>> /\ result = <<>>
    /\ typeIdx = 1 /\ scanPos = 1 /\ sPc = "idle"

IdleMarkdown ==
    /\ mIdx = 1 /\ lines = <<>> /\ listCounter = 0
    /\ mdResult = <<>> /\ mPc = "idle"

IdleDb ==
    /\ dbArticles = <<>> /\ dbCall = <<>> /\ dbReturn = <<>>
    /\ inFlight = {} /\ dbPc = "idle"

IdleTranslate ==
    /\ provider = "" /\ failures = <<>> /\ attempt = 1 /\ calls = 0
    /\ waits = <<>> /\ lastError = <<>> /\ tPc = "idle"

IdleKeys ==
    /\ apiKeys = <<>> /\ keysOut = <<>> /\ keyPc = "idle"

IdleSanity ==
    /\ sbData = <<>> /\ sbBody = <<>> /\ sbBlocks = <<>> /\ sbPc = "idle"

IdleFetch ==
    /\ fwFeed = <<>> /\ fwServer = <<>> /\ fwPc = "idle" /\ fwTimer = <<>>
    /\ fwAborted = FALSE /\ fwFiredAt = "never" /\ fwPromise = <<>>

IdleChunks ==
    /\ chContent = <<>> /\ chRemaining = <<>> /\ chChunks = <<>> /\ chPc = "idle"

IdleMore == IdleKeys /\ IdleSanity /\ IdleFetch /\ IdleChunks

----------------------------------------------------------------------------
(* Characters *)

DQ == "\""
BS == "\\"
NL == "\n"
TAB == "\t"

Min(S) == CHOOSE x \in S : \A y \in S : x <= y

RECURSIVE Flatten(_)
Flatten(ss) == IF ss = <<>> THEN <<>> ELSE Head(ss) \o Flatten(Tail(ss))

\* All sequences over S of length lo..hi
SeqsOf(S, lo, hi) == UNION { [1..n -> S] : n \in lo..hi }

----------------------------------------------------------------------------
(* String.prototype.replace with a global two-character pattern: leftmost,  *)
(* non-overlapping matches, each replaced by rep.                           *)

RECURSIVE ReplacePair(_, _, _, _)
ReplacePair(s, c1, c2, rep) ==
    IF Len(s) < 2 THEN s
    ELSE IF s[1] = c1 /\ s[2] = c2
         THEN rep \o ReplacePair(SubSeq(s, 3, Len(s)), c1, c2, rep)
         ELSE <<s[1]>> \o ReplacePair(Tail(s), c1, c2, rep)

HexDigits == {"0", "1", "2", "3", "4", "5", "6", "7", "8", "9",
              "a", "b", "c", "d", "e", "f", "A", "B", "C", "D", "E", "F"}

\* String.fromCharCode(parseInt(hex, 16)): the character is named by its code
FromCharCode(h1, h2, h3, h4) == "U+" \o h1 \o h2 \o h3 \o h4

\* .replace(/\\u([0-9a-fA-F]{4})/g, ...)
RECURSIVE ReplaceUnicode(_)
ReplaceUnicode(s) ==
    IF Len(s) < 6 THEN s
    ELSE IF /\ s[1] = BS /\ s[2] = "u"
            /\ \A k \in 3..6 : s[k] \in HexDigits
         THEN <<FromCharCode(s[3], s[4], s[5], s[6])>>
                  \o ReplaceUnicode(SubSeq(s, 7, Len(s)))
         ELSE <<s[1]>> \o ReplaceUnicode(Tail(s))

\* s.includes('\\"')
IncludesEscapedQuote(s) ==
    \E i \in 1..(Len(s) - 1) : s[i] = BS /\ s[i + 1] = DQ

\* The first unescape pass (server.js 566-571)
UnescapeFirst(raw) ==
    ReplaceUnicode(
      ReplacePair(
        ReplacePair(
          ReplacePair(
            ReplacePair(raw, BS, DQ, <<DQ>>),
            BS, "n", <<NL>>),
          BS, "t", <<TAB>>),
        BS, BS, <<BS>>))

\* The second pass (server.js 576-580): no \u step
UnescapeSecond(s) ==
    ReplacePair(
      ReplacePair(
        ReplacePair(
          ReplacePair(s, BS, DQ, <<DQ>>),
          BS, "n", <<NL>>),
        BS, "t", <<TAB>>),
      BS, BS, <<BS>>)

\* The decoding of one captured literal (server.js 564-582)
DecodePayload(raw, dbl) ==
    LET unescaped == UnescapeFirst(raw)
    IN  IF dbl /\ IncludesEscapedQuote(unescaped)
        THEN UnescapeSecond(unescaped)
        ELSE unescaped

----------------------------------------------------------------------------
(* The call-site regex  /self\.__next_f\.push\(\[1,"(.+?)"\]\)/gs           *)

\* The lexeme  self.__next_f.push([1,
PushOpen == "self.__next_f.push([1,"

\* "\]\)  at position j
ClosesAt(h, j) ==
    /\ j + 2 <= Len(h)
    /\ h[j] = DQ /\ h[j + 1] = "]" /\ h[j + 2] = ")"

\* The positions at which the lazy group (.+?) can stop for a match that
\* starts at i: at least one character is captured.
CloseCandidates(h, i) == { j \in (i + 3)..Len(h) : ClosesAt(h, j) }

MatchesAt(h, i) ==
    /\ i + 1 <= Len(h)
    /\ h[i] = PushOpen /\ h[i + 1] = DQ
    /\ CloseCandidates(h, i) # {}

\* regex.exec(html) from lastIndex: the leftmost start, the shortest capture
MatchStarts(h, from) == { i \in from..Len(h) : MatchesAt(h, i) }

ExecMatch(h, from) ==
    LET i == Min(MatchStarts(h, from))
        j == Min(CloseCandidates(h, i))
    IN  [capture |-> SubSeq(h, i + 2, j - 1), next |-> j + 3]

----------------------------------------------------------------------------
(* Inputs of extractRSCPayloads: pages built from call sites                *)

MaxUnits == 3
MaxStr == 2

\* The source text of a JavaScript string literal is a run of units: an
\* ordinary character or a backslash escape.  No unit is a bare quote.
LiteralUnits == { <<"a">>, <<"]">>, <<")">>, <<BS, DQ>>, <<BS, BS>>, <<BS, "n">> }

\* <script>self.__next_f.push([1,"lit"])</script>
CallSite(lit) == <<"<script>", PushOpen, DQ>> \o lit \o <<DQ, "]", ")", "</script>">>

RECURSIVE PageOf(_)
PageOf(lits) ==
    IF lits = <<>> THEN <<"</body>">>
    ELSE CallSite(Head(lits)) \o PageOf(Tail(lits))

\* One or two call sites whose literals hold MaxUnits units in all
LiteralLists ==
    { <<Flatten(us)>> : us \in SeqsOf(LiteralUnits, 1, MaxUnits) }
    \cup
    { <<Flatten(SubSeq(us, 1, k)), Flatten(SubSeq(us, k + 1, Len(us)))>> :
        us \in SeqsOf(LiteralUnits, 2, MaxUnits), k \in 1..(MaxUnits - 1) }

\* JSON-style escaping of a string (what JSON.stringify does to its content)
RECURSIVE JsonEscape(_)
JsonEscape(s) ==
    IF s = <<>> THEN <<>>
    ELSE (CASE Head(s) = DQ -> <<BS, DQ>>
            [] Head(s) = BS -> <<BS, BS>>
            [] Head(s) = NL -> <<BS, "n">>
            [] Head(s) = TAB -> <<BS, "t">>
            [] OTHER -> <<Head(s)>>) \o JsonEscape(Tail(s))

PlainChars == {DQ, BS, NL, TAB, "a"}
PlainStrings == SeqsOf(PlainChars, 1, MaxStr)

DoubleEscaped == { <<JsonEscape(JsonEscape(s))>> : s \in PlainStrings }

----------------------------------------------------------------------------
(* extractRSCPayloads (server.js 554-589) *)

InitPayloads ==
    /\ srcLiterals \in LiteralLists \cup DoubleEscaped \cup {<<>>}
    /\ html = PageOf(srcLiterals)
    /\ doubleUnescape \in BOOLEAN
    /\ lastIndex = 1
    /\ payloads = <<>>
    /\ rscPc = "scan"
    /\ blocks = [t |-> "null", v |-> <<>>] /\ IdleHtml /\ IdleMarkdown /\ IdleArticles /\ IdleSingle /\ IdleDb /\ IdleTranslate /\ IdleMore

\* One iteration of the while loop: a match is found and its payload pushed
PushPayload ==
    /\ rscPc = "scan"
    /\ MatchStarts(html, lastIndex) # {}
    /\ LET m == ExecMatch(html, lastIndex)
       IN  /\ payloads' = Append(payloads, DecodePayload(m.capture, doubleUnescape))
           /\ lastIndex' = m.next
    /\ UNCHANGED <<html, srcLiterals, doubleUnescape, rscPc, blocks, htmlVars, mdVars, artVars, oneVars, dbVars, trVars, moreVars>>

\* regex.exec returns null: the loop ends and the function returns
ReturnPayloads ==
    /\ rscPc = "scan"
    /\ MatchStarts(html, lastIndex) = {}
    /\ rscPc' = "done"
    /\ UNCHANGED <<html, srcLiterals, doubleUnescape, lastIndex, payloads, blocks, htmlVars, mdVars, artVars, oneVars, dbVars, trVars, moreVars>>

NextPayloads == PushPayload \/ ReturnPayloads

SpecPayloads == InitPayloads /\ [][NextPayloads]_vars


----------------------------------------------------------------------------
(* Properties of extractRSCPayloads *)

\* C1: a page built from N call sites yields exactly N payloads, the i-th
\* being the decoding of the whole i-th literal: the capture runs up to the
\* literal's unescaped closing quote.
PayloadPerCallSite ==
    rscPc = "done" =>
        /\ Len(payloads) = Len(srcLiterals)
        /\ \A i \in 1..Len(srcLiterals) :
               payloads[i] = DecodePayload(srcLiterals[i], doubleUnescape)

\* C2: a string escaped twice with JSON-style escaping and decoded with
\* doubleUnescape = true comes back unchanged.
DoubleUnescapeRoundTrip ==
    \A s \in PlainStrings :
        ( /\ rscPc = "done"
          /\ doubleUnescape
          /\ srcLiterals = <<JsonEscape(JsonEscape(s))>> )
        => payloads = <<s>>


----------------------------------------------------------------------------
(* JavaScript values.  A value is a record [t, v]: t is what typeof and     *)
(* Array.isArray tell apart, v the content.  A string's content is its      *)
(* sequence of symbols, an array's its items, an object's its properties as *)
(* a sequence of <<key, value>> in insertion order (a key is a sequence of  *)
(* symbols, as JSON.parse reads it).                                        *)

Undefined == [t |-> "undefined", v |-> <<>>]
JNull == [t |-> "null", v |-> <<>>]
JStr(s) == [t |-> "string", v |-> s]
JNum(n) == [t |-> "number", v |-> n]
JBool(b) == [t |-> "boolean", v |-> b]
JArr(items) == [t |-> "array", v |-> items]
JObj(props) == [t |-> "object", v |-> props]

\* A string of one lexeme, such as 'bullet'
Lit(name) == JStr(<<name>>)
EmptyString == JStr(<<>>)

\* ToBoolean
Truthy(x) ==
    CASE x.t \in {"undefined", "null"} -> FALSE
      [] x.t = "string" -> x.v # <<>>
      [] x.t = "number" -> x.v # 0
      [] x.t = "boolean" -> x.v
      [] OTHER -> TRUE

\* a || b
Or(a, b) == IF Truthy(a) THEN a ELSE b

\* Reading a property of null or undefined throws a TypeError
IsNullish(x) == x.t \in {"undefined", "null"}

HasKey(x, name) == x.t = "object" /\ \E i \in 1..Len(x.v) : x.v[i][1] = <<name>>

\* x.name for an x that is not nullish: undefined unless x is an object that
\* has the property
Get(x, name) ==
    IF HasKey(x, name)
    THEN x.v[CHOOSE i \in 1..Len(x.v) : x.v[i][1] = <<name>>][2]
    ELSE Undefined

IsArray(x) == x.t = "array"

\* a === b: primitives by value, objects and arrays by identity (two values
\* read from the input are never the same object)
StrictEq(a, b) == a.t \notin {"object", "array"} /\ a = b

\* for (const e of x) works on arrays and on strings (character by character)
Iterable(x) == x.t \in {"array", "string"}
Elements(x) ==
    IF x.t = "array" THEN x.v ELSE [i \in 1..Len(x.v) |-> JStr(<<x.v[i]>>)]

Digits == <<"0", "1", "2", "3", "4", "5", "6", "7", "8", "9">>

\* String(n) for a natural number
RECURSIVE NumberText(_)
NumberText(n) ==
    IF n < 10 THEN <<Digits[n + 1]>>
    ELSE NumberText(n \div 10) \o <<Digits[(n % 10) + 1]>>

\* pieces.join(sep)
RECURSIVE JoinWith(_, _)
JoinWith(pieces, sep) ==
    IF pieces = <<>> THEN <<>>
    ELSE IF Len(pieces) = 1 THEN pieces[1]
    ELSE pieces[1] \o sep \o JoinWith(Tail(pieces), sep)

\* String(x), as a template literal or join converts a value
RECURSIVE TemplateText(_)
TemplateText(x) ==
    CASE x.t = "string" -> x.v
      [] x.t = "number" -> NumberText(x.v)
      [] x.t = "boolean" -> IF x.v THEN <<"true">> ELSE <<"false">>
      [] x.t = "undefined" -> <<"undefined">>
      [] x.t = "null" -> <<"null">>
      [] x.t = "object" -> <<"[object Object]">>
      [] OTHER ->
           JoinWith([i \in 1..Len(x.v) |->
                        IF IsNullish(x.v[i]) THEN <<>> ELSE TemplateText(x.v[i])],
                    <<",">>)

Whitespace == {" ", NL, TAB}

\* s.trim()
RECURSIVE TrimStart(_)
TrimStart(s) ==
    IF s # <<>> /\ Head(s) \in Whitespace THEN TrimStart(Tail(s)) ELSE s

RECURSIVE TrimEnd(_)
TrimEnd(s) ==
    IF s # <<>> /\ s[Len(s)] \in Whitespace
    THEN TrimEnd(SubSeq(s, 1, Len(s) - 1)) ELSE s

Trim(s) == TrimEnd(TrimStart(s))

\* s.replace(/c/g, rep) for a one-character pattern
RECURSIVE ReplaceChar(_, _, _)
ReplaceChar(s, c, rep) ==
    IF s = <<>> THEN <<>>
    ELSE (IF Head(s) = c THEN rep ELSE <<Head(s)>>) \o ReplaceChar(Tail(s), c, rep)


----------------------------------------------------------------------------
(* escapeHtml (server.js 1385-1392).  The entities it writes are lexemes.   *)

escapeHtml(text) ==
    IF ~Truthy(text) THEN <<>>
    ELSE ReplaceChar(
           ReplaceChar(
             ReplaceChar(
               ReplaceChar(text.v, "&", <<"&amp;">>),
               "<", <<"&lt;">>),
             ">", <<"&gt;">>),
           DQ, <<"&quot;">>)

\* text.replace is not a function: a truthy value that is no string
escapeHtmlThrows(text) == Truthy(text) /\ text.t # "string"

----------------------------------------------------------------------------
(* renderBlockChildren (server.js 1027-1066).  The markup the renderer      *)
(* writes is a sequence of lexemes ("<strong>", "</li>", ...); the text it  *)
(* copies from the blocks stays a sequence of characters.                   *)

OpenTag(tag) == "<" \o tag \o ">"
CloseTag(tag) == "</" \o tag \o ">"
Wrap(tag, content) == <<OpenTag(tag)>> \o content \o <<CloseTag(tag)>>

\* markDefs.find(d => d._key === mark)
RECURSIVE FindDef(_, _)
FindDef(defs, mark) ==
    IF defs = <<>> THEN Undefined
    ELSE IF StrictEq(Get(Head(defs), "_key"), mark) THEN Head(defs)
    ELSE FindDef(Tail(defs), mark)

\* find is no method of a non-array; d._key of a null d throws
FindDefThrows(markDefs, mark) ==
    \/ ~IsArray(markDefs)
    \/ \E i \in 1..Len(markDefs.v) :
          /\ IsNullish(markDefs.v[i])
          /\ \A j \in 1..(i - 1) : ~StrictEq(Get(markDefs.v[j], "_key"), mark)

IsLinkDef(def) ==
    /\ Truthy(def)
    /\ StrictEq(Get(def, "_type"), Lit("link"))
    /\ Truthy(Get(def, "href"))

\* One turn of the loop over marks (server.js 1042-1062)
ApplyMarkHtml(text, mark, markDefs) ==
    CASE StrictEq(mark, Lit("strong")) -> Wrap("strong", text)
      [] StrictEq(mark, Lit("em")) -> Wrap("em", text)
      [] StrictEq(mark, Lit("code")) -> Wrap("code", text)
      [] OTHER ->
           LET def == FindDef(markDefs.v, mark)
           IN  IF IsLinkDef(def)
               THEN <<"<a href=\"">> \o escapeHtml(Get(def, "href")) \o <<"\">">>
                        \o text \o <<"</a>">>
               ELSE text

IsBuiltinMark(mark) ==
    \/ StrictEq(mark, Lit("strong"))
    \/ StrictEq(mark, Lit("em"))
    \/ StrictEq(mark, Lit("code"))

ApplyMarkHtmlThrows(mark, markDefs) ==
    /\ ~IsBuiltinMark(mark)
    /\ \/ FindDefThrows(markDefs, mark)
       \/ LET def == FindDef(markDefs.v, mark)
          IN  IsLinkDef(def) /\ escapeHtmlThrows(Get(def, "href"))

\* The marks are applied from the last to the first: the first is outermost
RECURSIVE ApplyMarksReversed(_, _, _)
ApplyMarksReversed(text, marks, markDefs) ==
    IF marks = <<>> THEN text
    ELSE ApplyMarkHtml(ApplyMarksReversed(text, Tail(marks), markDefs),
                       Head(marks), markDefs)

RECURSIVE ApplyMarksHtml(_, _, _)
ApplyMarksHtml(text, marks, markDefs) ==
    IF marks = <<>> THEN text
    ELSE ApplyMarksHtml(ApplyMarkHtml(text, Head(marks), markDefs),
                        Tail(marks), markDefs)

IsSpan(child) == Truthy(child) /\ StrictEq(Get(child, "_type"), Lit("span"))

\* The callback of children.map (server.js 1032-1065)
SpanHtml(child, markDefs) ==
    IF ~IsSpan(child) THEN <<>>
    ELSE LET text == Or(Get(child, "text"), EmptyString)
             marks == Or(Get(child, "marks"), JArr(<<>>))
         IN  IF ~Truthy(text) THEN <<>>
             ELSE ApplyMarksHtml(escapeHtml(text), Elements(marks), markDefs)

SpanHtmlThrows(child, markDefs) ==
    /\ IsSpan(child)
    /\ LET text == Or(Get(child, "text"), EmptyString)
           marks == Or(Get(child, "marks"), JArr(<<>>))
       IN  /\ Truthy(text)
           /\ \/ escapeHtmlThrows(text)
              \/ ~Iterable(marks)
              \/ \E i \in 1..Len(Elements(marks)) :
                    ApplyMarkHtmlThrows(Elements(marks)[i], markDefs)

HasChildren(block) ==
    Truthy(Get(block, "children")) /\ IsArray(Get(block, "children"))

renderBlockChildren(block) ==
    IF ~HasChildren(block) THEN <<>>
    ELSE LET markDefs == Or(Get(block, "markDefs"), JArr(<<>>))
             children == Get(block, "children").v
         IN  Flatten([i \in 1..Len(children) |-> SpanHtml(children[i], markDefs)])

renderBlockChildrenThrows(block) ==
    \/ IsNullish(block)
    \/ /\ HasChildren(block)
       /\ LET markDefs == Or(Get(block, "markDefs"), JArr(<<>>))
              children == Get(block, "children").v
          IN  \E i \in 1..Len(children) : SpanHtmlThrows(children[i], markDefs)

\* extractCaptionText (server.js 1014-1020)
HasCaption(block) ==
    Truthy(Get(block, "caption")) /\ IsArray(Get(block, "caption"))

extractCaptionText(block) ==
    IF ~HasCaption(block) THEN <<>>
    ELSE LET caption == Get(block, "caption").v
         IN  Trim(JoinWith([i \in 1..Len(caption) |-> renderBlockChildren(caption[i])],
                           <<" ">>))

extractCaptionTextThrows(block) ==
    /\ HasCaption(block)
    /\ \E i \in 1..Len(Get(block, "caption").v) :
          renderBlockChildrenThrows(Get(block, "caption").v[i])


----------------------------------------------------------------------------
(* sanityBlocksToHtml (server.js 794-893): what one block pushes onto html  *)

\* x.length > 0 for the rows of a table: arrays and strings have a length
HasLength(x) == x.t \in {"array", "string"} /\ Len(x.v) > 0

\* case 'block' (server.js 822-837)
StyleTag(style) ==
    CASE StrictEq(style, Lit("h1")) -> "h1"
      [] StrictEq(style, Lit("h2")) -> "h2"
      [] StrictEq(style, Lit("h3")) -> "h3"
      [] StrictEq(style, Lit("h4")) -> "h4"
      [] StrictEq(style, Lit("blockquote")) -> "blockquote"
      [] OTHER -> "p"

\* The element is written whatever its content
TextBlockHtmlAlways(block) ==
    << Wrap(StyleTag(Or(Get(block, "style"), Lit("normal"))),
            renderBlockChildren(block)) >>

TextBlockHtml(block) ==
    LET style == Or(Get(block, "style"), Lit("normal"))
        content == renderBlockChildren(block)
    IN  IF Trim(content) = <<>> THEN <<>>
        ELSE << Wrap(StyleTag(style), content) >>

\* case 'code', 'codeBlock' (server.js 838-844)
CodeBlockHtml(block) ==
    LET lang == Or(Get(block, "language"), EmptyString)
        code == escapeHtml(Or(Get(block, "code"), EmptyString))
    IN  << <<"<pre>", "<code class=\"language-">> \o TemplateText(lang) \o <<"\">">>
              \o code \o <<"</code>", "</pre>">> >>

CodeBlockHtmlThrows(block) == escapeHtmlThrows(Or(Get(block, "code"), EmptyString))

\* case 'image' (server.js 845-854)
ImageAlt(block) == Or(Or(Get(block, "description"), Get(block, "alt")), EmptyString)

FigCaption(caption) ==
    IF caption # <<>>
    THEN <<"<figcaption>">> \o escapeHtml(JStr(caption)) \o <<"</figcaption>">>
    ELSE <<>>

HasAssetRef(block) ==
    Truthy(Get(block, "asset")) /\ Truthy(Get(Get(block, "asset"), "_ref"))

ImageHtml(block) ==
    LET alt == ImageAlt(block)
        caption == extractCaptionText(block)
    IN  IF Truthy(Get(block, "url"))
        THEN << <<"<figure>", "<img src=\"">> \o escapeHtml(Get(block, "url"))
                   \o <<"\" alt=\"">> \o escapeHtml(alt) \o <<"\" />">>
                   \o FigCaption(caption) \o <<"</figure>">> >>
        ELSE IF HasAssetRef(block)
        THEN << <<"<figure>", "<img alt=\"">> \o escapeHtml(alt) \o <<"\" />">>
                   \o FigCaption(caption) \o <<"</figure>">> >>
        ELSE <<>>

ImageHtmlThrows(block) ==
    \/ extractCaptionTextThrows(block)
    \/ /\ Truthy(Get(block, "url"))
       /\ escapeHtmlThrows(Get(block, "url")) \/ escapeHtmlThrows(ImageAlt(block))
    \/ /\ ~Truthy(Get(block, "url")) /\ HasAssetRef(block)
       /\ escapeHtmlThrows(ImageAlt(block))

\* One table cell (server.js 864-873)
IsTableCell(cell) ==
    /\ Truthy(cell)
    /\ StrictEq(Get(cell, "_type"), Lit("tableCell"))
    /\ IsArray(Get(cell, "content"))

CellHtml(cell) ==
    IF IsTableCell(cell)
    THEN LET content == Get(cell, "content").v
         IN  JoinWith([i \in 1..Len(content) |-> renderBlockChildren(content[i])], <<" ">>)
    ELSE IF IsArray(cell)
    THEN Flatten([i \in 1..Len(cell.v) |-> renderBlockChildren(cell.v[i])])
    ELSE IF cell.t = "string" THEN escapeHtml(cell)
    ELSE <<>>

CellHtmlThrows(cell) ==
    IF IsTableCell(cell)
    THEN \E i \in 1..Len(Get(cell, "content").v) :
            renderBlockChildrenThrows(Get(cell, "content").v[i])
    ELSE /\ IsArray(cell)
         /\ \E i \in 1..Len(cell.v) : renderBlockChildrenThrows(cell.v[i])

RowCells(row) == Or(Get(row, "cells"), JArr(<<>>))

\* One row: '<tr>', one piece per cell, '</tr>' (server.js 859-876)
RowHtml(row, ri) ==
    LET cells == Elements(RowCells(row))
        tag == IF ri = 1 THEN "th" ELSE "td"
    IN  << <<"<tr>">> >>
          \o [i \in 1..Len(cells) |-> Wrap(tag, CellHtml(cells[i]))]
          \o << <<"</tr>">> >>

RowHtmlThrows(row) ==
    \/ IsNullish(row)
    \/ ~Iterable(RowCells(row))
    \/ \E i \in 1..Len(Elements(RowCells(row))) :
          CellHtmlThrows(Elements(RowCells(row))[i])

\* case 'table' (server.js 855-880)
TableRows(block) == Or(Get(block, "rows"), JArr(<<>>))

TableHtml(block) ==
    LET rows == TableRows(block)
    IN  IF ~HasLength(rows) THEN <<>>
        ELSE << <<"<table>">> >>
               \o Flatten([ri \in 1..Len(rows.v) |-> RowHtml(Elements(rows)[ri], ri)])
               \o << <<"</table>">> >>

TableHtmlThrows(block) ==
    LET rows == TableRows(block)
    IN  /\ HasLength(rows)
        /\ \E ri \in 1..Len(rows.v) : RowHtmlThrows(Elements(rows)[ri])

\* The switch on block._type (server.js 821-884): the pieces pushed
BlockHtml(block) ==
    LET type == Get(block, "_type")
    IN  CASE StrictEq(type, Lit("block")) -> TextBlockHtml(block)
          [] StrictEq(type, Lit("code")) \/ StrictEq(type, Lit("codeBlock")) ->
               CodeBlockHtml(block)
          [] StrictEq(type, Lit("image")) -> ImageHtml(block)
          [] StrictEq(type, Lit("table")) -> TableHtml(block)
          [] OTHER -> <<>>

BlockHtmlThrows(block) ==
    LET type == Get(block, "_type")
    IN  CASE StrictEq(type, Lit("block")) -> renderBlockChildrenThrows(block)
          [] StrictEq(type, Lit("code")) \/ StrictEq(type, Lit("codeBlock")) ->
               CodeBlockHtmlThrows(block)
          [] StrictEq(type, Lit("image")) -> ImageHtmlThrows(block)
          [] StrictEq(type, Lit("table")) -> TableHtmlThrows(block)
          [] OTHER -> FALSE

\* if (!block || !block._type) continue  (server.js 801)
IsSkipped(block) == ~Truthy(block) \/ ~Truthy(Get(block, "_type"))

\* block.listItem === 'number' ? 'ol' : 'ul'  (server.js 805)
ListTag(block) == IF StrictEq(Get(block, "listItem"), Lit("number")) THEN "ol" ELSE "ul"

\* The open list is never closed
CloseListNever(cur) == <<>>

\* currentList is "" for null.  if (currentList) html.push(`</${currentList}>`)
CloseList(cur) == IF cur # "" THEN << <<CloseTag(cur)>> >> ELSE <<>>

\* A list is opened only when none is open: a change of kind goes unnoticed
OpensListWhenNone(cur, listTag) == cur = ""

\* if (currentList !== listTag): the open list is closed and a new one opened
OpensList(cur, listTag) == cur # listTag

\* The list branch (server.js 804-813)
ListItemHtml(block, cur) ==
    (IF OpensList(cur, ListTag(block))
     THEN CloseList(cur) \o << <<OpenTag(ListTag(block))>> >>
     ELSE <<>>)
    \o << Wrap("li", renderBlockChildren(block)) >>


----------------------------------------------------------------------------
(* Inputs of the renderers: arrays of Sanity blocks *)

MaxBlocks == 3

Prop(name, value) == << <<name>>, value >>

Span(text, marks) ==
    JObj(<< Prop("_type", Lit("span")), Prop("text", JStr(text)),
            Prop("marks", JArr(marks)) >>)

TextBlock(style, text) ==
    JObj(<< Prop("_type", Lit("block")), Prop("style", Lit(style)),
            Prop("children", JArr(<< Span(text, <<>>) >>)),
            Prop("markDefs", JArr(<<>>)) >>)

ListItem(kind, text) ==
    JObj(<< Prop("_type", Lit("block")), Prop("listItem", Lit(kind)),
            Prop("children", JArr(<< Span(text, <<>>) >>)),
            Prop("markDefs", JArr(<<>>)) >>)

BlockSamples ==
    { ListItem("bullet", <<"a">>),
      ListItem("number", <<"b">>),
      TextBlock("normal", <<"c">>),
      TextBlock("h2", <<"d">>),
      TextBlock("normal", <<>>),
      JObj(<< Prop("_type", Lit("code")), Prop("language", Lit("python")),
              Prop("code", JStr(<<"x", "<", "y">>)) >>),
      JObj(<< Prop("_type", Lit("divider")) >>),
      JNull,
      \* a list item that lost its _type
      JObj(<< Prop("listItem", Lit("bullet")),
              Prop("children", JArr(<< Span(<<"e">>, <<>>) >>)) >>),
      \* a table whose only row is null
      JObj(<< Prop("_type", Lit("table")), Prop("rows", JArr(<< JNull >>)) >>) }

BlockInputs == {JNull} \cup { JArr(bs) : bs \in SeqsOf(BlockSamples, 0, MaxBlocks) }

----------------------------------------------------------------------------
(* sanityBlocksToHtml (server.js 794-893): the loop *)

InitHtml ==
    /\ blocks \in BlockInputs
    /\ hIdx = 1 /\ htmlOut = <<>> /\ currentList = "" /\ htmlResult = <<>>
    /\ hPc = "loop"
    /\ IdlePayloads /\ IdleMarkdown /\ IdleArticles /\ IdleSingle /\ IdleDb /\ IdleTranslate /\ IdleMore

InHtmlLoop == hPc = "loop" /\ IsArray(blocks) /\ hIdx <= Len(blocks.v)

\* if (!Array.isArray(blocks) || blocks.length === 0) return ''
HtmlNoBlocks ==
    /\ hPc = "loop"
    /\ ~IsArray(blocks) \/ Len(blocks.v) = 0
    /\ hPc' = "done"
    /\ htmlResult' = <<>>
    /\ UNCHANGED <<blocks, hIdx, htmlOut, currentList, rscVars, mdVars, artVars, oneVars, dbVars, trVars, moreVars>>

\* if (!block || !block._type) continue
HtmlSkipBlock ==
    /\ InHtmlLoop
    /\ IsSkipped(blocks.v[hIdx])
    /\ hIdx' = hIdx + 1
    /\ UNCHANGED <<blocks, htmlOut, currentList, htmlResult, hPc, rscVars, mdVars, artVars, oneVars, dbVars, trVars, moreVars>>

\* if (block.listItem) { ... continue }
HtmlListItem ==
    /\ InHtmlLoop
    /\ LET block == blocks.v[hIdx]
       IN  /\ ~IsSkipped(block)
           /\ Truthy(Get(block, "listItem"))
           /\ ~renderBlockChildrenThrows(block)
           /\ htmlOut' = htmlOut \o ListItemHtml(block, currentList)
           /\ currentList' = ListTag(block)
    /\ hIdx' = hIdx + 1
    /\ UNCHANGED <<blocks, htmlResult, hPc, rscVars, mdVars, artVars, oneVars, dbVars, trVars, moreVars>>

\* Any other block: the open list is closed, then the switch on _type
HtmlBlock ==
    /\ InHtmlLoop
    /\ LET block == blocks.v[hIdx]
       IN  /\ ~IsSkipped(block)
           /\ ~Truthy(Get(block, "listItem"))
           /\ ~BlockHtmlThrows(block)
           /\ htmlOut' = htmlOut \o CloseList(currentList) \o BlockHtml(block)
    /\ currentList' = ""
    /\ hIdx' = hIdx + 1
    /\ UNCHANGED <<blocks, htmlResult, hPc, rscVars, mdVars, artVars, oneVars, dbVars, trVars, moreVars>>

\* A TypeError inside the loop body leaves the function: nothing catches it
HtmlThrow ==
    /\ InHtmlLoop
    /\ LET block == blocks.v[hIdx]
       IN  /\ ~IsSkipped(block)
           /\ IF Truthy(Get(block, "listItem"))
              THEN renderBlockChildrenThrows(block)
              ELSE BlockHtmlThrows(block)
    /\ hPc' = "thrown"
    /\ UNCHANGED <<blocks, hIdx, htmlOut, currentList, htmlResult, rscVars, mdVars, artVars, oneVars, dbVars, trVars, moreVars>>

\* After the loop: the open list is closed and the pieces joined
HtmlReturn ==
    /\ hPc = "loop" /\ IsArray(blocks)
    /\ Len(blocks.v) > 0 /\ hIdx > Len(blocks.v)
    /\ htmlOut' = htmlOut \o CloseList(currentList)
    /\ htmlResult' = JoinWith(htmlOut', <<NL>>)
    /\ hPc' = "done"
    /\ UNCHANGED <<blocks, hIdx, currentList, rscVars, mdVars, artVars, oneVars, dbVars, trVars, moreVars>>

NextHtml ==
    \/ HtmlNoBlocks \/ HtmlSkipBlock \/ HtmlListItem
    \/ HtmlBlock \/ HtmlThrow \/ HtmlReturn

SpecHtml == InitHtml /\ [][NextHtml]_vars


----------------------------------------------------------------------------
(* Properties of sanityBlocksToHtml *)

ListOpeners == {"<ul>", "<ol>"}
ListClosers == {"</ul>", "</ol>"}
BlockOpeners == {"<p>", "<h1>", "<h2>", "<h3>", "<h4>", "<blockquote>",
                 "<pre>", "<figure>", "<table>"}
ContainerName(tag) == IF tag \in {"<ul>", "</ul>"} THEN "ul" ELSE "ol"

\* Reads the output from left to right, keeping the open list container:
\* "bad" as soon as a container opens inside another, a closing tag meets no
\* open container of its kind, an <li> stands outside a container or a
\* non-list block starts inside one.
RECURSIVE ListScan(_, _)
ListScan(out, open) ==
    IF out = <<>> \/ open = "bad" THEN open
    ELSE LET c == Head(out)
         IN  CASE c \in ListOpeners ->
                    ListScan(Tail(out), IF open = "" THEN ContainerName(c) ELSE "bad")
               [] c \in ListClosers ->
                    ListScan(Tail(out), IF open = ContainerName(c) THEN "" ELSE "bad")
               [] c = "<li>" ->
                    ListScan(Tail(out), IF open # "" THEN open ELSE "bad")
               [] c \in BlockOpeners ->
                    ListScan(Tail(out), IF open = "" THEN open ELSE "bad")
               [] OTHER -> ListScan(Tail(out), open)

\* C8: the list tags of the output are balanced: at most one container is
\* open at a time (and it is the one currentList names), every <li> is inside
\* it, it is closed before any non-list block's output, and none is open in
\* the returned string.
ListTagsBalanced ==
    /\ ListScan(JoinWith(htmlOut, <<NL>>), "") = currentList
       \/ (hPc = "done" /\ ListScan(JoinWith(htmlOut, <<NL>>), "") = "")
    /\ hPc = "done" => ListScan(htmlResult, "") = ""

\* [bullet, paragraph, number]: a list, a block and another list
ListClosedBeforeBlock ==
    /\ hPc = "done"
    /\ htmlOut = << <<"<ul>">>, <<"<li>", "a", "</li>">>, <<"</ul>">>,
                    <<"<p>", "c", "</p>">>,
                    <<"<ol>">>, <<"<li>", "b", "</li>">>, <<"</ol>">> >>

\* The blocks the loop does not skip, and their list kind
IsListBlock(b) == ~IsSkipped(b) /\ Truthy(Get(b, "listItem"))
ContainerOf(b) ==
    IF ~IsListBlock(b) THEN "none"
    ELSE IF Get(b, "listItem") = Lit("bullet") THEN "ul"
    ELSE IF Get(b, "listItem") = Lit("number") THEN "ol"
    ELSE "other"

\* b[i] starts a maximal run: no block before it, or the block before it is
\* not a list item of its kind.  Likewise for the end of a run.
StartsRun(bs, i) ==
    LET before == { j \in 1..(i - 1) : ~IsSkipped(bs[j]) }
    IN  before = {} \/
        ContainerOf(bs[CHOOSE j \in before : \A k \in before : k <= j]) # ContainerOf(bs[i])

EndsRun(bs, i) ==
    LET after == { j \in (i + 1)..Len(bs) : ~IsSkipped(bs[j]) }
    IN  after = {} \/
        ContainerOf(bs[CHOOSE j \in after : \A k \in after : j <= k]) # ContainerOf(bs[i])

RunPieces(bs, i) ==
    IF IsSkipped(bs[i]) THEN <<>>
    ELSE IF IsListBlock(bs[i])
    THEN (IF StartsRun(bs, i) THEN << <<OpenTag(ContainerOf(bs[i]))>> >> ELSE <<>>)
         \o << <<"<li>">> \o renderBlockChildren(bs[i]) \o <<"</li>">> >>
         \o (IF EndsRun(bs, i) THEN << <<CloseTag(ContainerOf(bs[i]))>> >> ELSE <<>>)
    ELSE BlockHtml(bs[i])

\* C9: each maximal run of list items of one kind yields one container, <ul>
\* for bullet and <ol> for number, opened before the run's first <li>, holding
\* one <li> per block in order, and closed right after the run's last <li>.
OneContainerPerRun ==
    (hPc = "done" /\ IsArray(blocks)) =>
        htmlOut = Flatten([i \in 1..Len(blocks.v) |-> RunPieces(blocks.v, i)])

\* [bullet, bullet, number]: two runs, the second of another kind
TwoRunsRendered ==
    /\ hPc = "done"
    /\ htmlOut = << <<"<ul>">>, <<"<li>", "a", "</li>">>, <<"<li>", "a", "</li>">>,
                    <<"</ul>">>, <<"<ol>">>, <<"<li>", "b", "</li>">>, <<"</ol>">> >>


\* The blocks with a discriminator the switch does not know
IsUnknownBlock(b) ==
    /\ ~IsSkipped(b) /\ ~Truthy(Get(b, "listItem"))
    /\ \A type \in {"block", "code", "codeBlock", "image", "table"} :
          ~StrictEq(Get(b, "_type"), Lit(type))

\* C11: sanityBlocksToHtml and sanityBlocksToMarkdown never throw, whatever
\* JSON values the array holds (null entries, unknown _type, children, rows,
\* cells or caption missing, of the wrong type or containing null): they
\* return a string, and blocks of unknown discriminator contribute no output.
RenderersNeverThrow ==
    /\ hPc # "thrown" /\ mPc # "thrown"
    /\ (hPc = "done" /\ IsArray(blocks)
           /\ \A i \in 1..Len(blocks.v) : IsUnknownBlock(blocks.v[i]))
       => htmlResult = <<>>
    /\ (mPc = "done" /\ IsArray(blocks)
           /\ \A i \in 1..Len(blocks.v) : IsUnknownBlock(blocks.v[i]))
       => mdResult = <<>>

----------------------------------------------------------------------------
(* renderBlockChildrenPlain (server.js 983-1009) *)

\* The grave accent of inline code, and the three of them that fence a code
\* block: one symbol each
Backtick == "grave"
Fence == "grave grave grave"

\* One turn of the loop over marks (server.js 993-1006)
ApplyMarkPlain(text, mark, markDefs) ==
    CASE StrictEq(mark, Lit("strong")) -> <<"**">> \o text \o <<"**">>
      [] StrictEq(mark, Lit("em")) -> <<"*">> \o text \o <<"*">>
      [] StrictEq(mark, Lit("code")) -> <<Backtick>> \o text \o <<Backtick>>
      [] OTHER ->
           LET def == FindDef(markDefs.v, mark)
           IN  IF IsLinkDef(def)
               THEN <<"[">> \o text \o <<"](">> \o TemplateText(Get(def, "href")) \o <<")">>
               ELSE text

RECURSIVE ApplyMarksPlain(_, _, _)
ApplyMarksPlain(text, marks, markDefs) ==
    IF marks = <<>> THEN text
    ELSE ApplyMarksPlain(ApplyMarkPlain(text, Head(marks), markDefs),
                         Tail(marks), markDefs)

SpanPlain(child, markDefs) ==
    IF ~IsSpan(child) THEN <<>>
    ELSE LET text == Or(Get(child, "text"), EmptyString)
             marks == Or(Get(child, "marks"), JArr(<<>>))
         IN  IF ~Truthy(text) THEN <<>>
             ELSE ApplyMarksPlain(TemplateText(text), Elements(marks), markDefs)

SpanPlainThrows(child, markDefs) ==
    /\ IsSpan(child)
    /\ LET text == Or(Get(child, "text"), EmptyString)
           marks == Or(Get(child, "marks"), JArr(<<>>))
       IN  /\ Truthy(text)
           /\ \/ ~Iterable(marks)
              \/ \E i \in 1..Len(Elements(marks)) :
                    /\ ~IsBuiltinMark(Elements(marks)[i])
                    /\ FindDefThrows(markDefs, Elements(marks)[i])

renderBlockChildrenPlain(block) ==
    IF ~HasChildren(block) THEN <<>>
    ELSE LET markDefs == Or(Get(block, "markDefs"), JArr(<<>>))
             children == Get(block, "children").v
         IN  Flatten([i \in 1..Len(children) |-> SpanPlain(children[i], markDefs)])

renderBlockChildrenPlainThrows(block) ==
    \/ IsNullish(block)
    \/ /\ HasChildren(block)
       /\ LET markDefs == Or(Get(block, "markDefs"), JArr(<<>>))
              children == Get(block, "children").v
          IN  \E i \in 1..Len(children) : SpanPlainThrows(children[i], markDefs)

----------------------------------------------------------------------------
(* sanityBlocksToMarkdown (server.js 900-978): what one block pushes onto   *)
(* lines.  The markup the renderer writes ("## ", ". ", "- ", ...) is a     *)
(* sequence of lexemes.                                                     *)

\* case 'block' (server.js 923-937)
StylePrefix(style) ==
    CASE StrictEq(style, Lit("h1")) -> <<"# ">>
      [] StrictEq(style, Lit("h2")) -> <<"## ">>
      [] StrictEq(style, Lit("h3")) -> <<"### ">>
      [] StrictEq(style, Lit("h4")) -> <<"#### ">>
      [] StrictEq(style, Lit("blockquote")) -> <<"> ">>
      [] OTHER -> <<>>

TextBlockMarkdown(block) ==
    LET style == Or(Get(block, "style"), Lit("normal"))
        text == renderBlockChildrenPlain(block)
    IN  IF Trim(text) = <<>> THEN <<>>
        ELSE << <<NL>> \o StylePrefix(style) \o text \o <<NL>> >>

\* case 'code', 'codeBlock' (server.js 938-943)
CodeBlockMarkdown(block) ==
    LET lang == Or(Get(block, "language"), EmptyString)
        code == Or(Get(block, "code"), EmptyString)
    IN  << <<NL, Fence>> \o TemplateText(lang) \o <<NL>> \o TemplateText(code)
              \o <<NL, Fence, NL>> >>

\* case 'image' (server.js 944-952)
ImageMarkdown(block) ==
    LET alt == ImageAlt(block)
        caption == extractCaptionText(block)
        url == Or(Get(block, "url"), EmptyString)
    IN  << <<NL, "![">> \o TemplateText(alt) \o <<"](">> \o TemplateText(url) \o <<")">> >>
        \o (IF caption # <<>> THEN << <<"*">> \o caption \o <<"*">> >> ELSE <<>>)
        \o << <<>> >>

\* The callback of cells.map (server.js 959-964)
CellMarkdown(cell) ==
    IF IsTableCell(cell)
    THEN LET content == Get(cell, "content").v
         IN  JoinWith([i \in 1..Len(content) |-> renderBlockChildrenPlain(content[i])],
                      <<" ">>)
    ELSE IF cell.t = "string" THEN cell.v
    ELSE <<>>

CellMarkdownThrows(cell) ==
    /\ IsTableCell(cell)
    /\ \E i \in 1..Len(Get(cell, "content").v) :
          renderBlockChildrenPlainThrows(Get(cell, "content").v[i])

\* One row (server.js 957-969): the row line, and under the first row the
\* separator line
RowMarkdown(row, ri) ==
    LET cells == RowCells(row).v
        cellTexts == [i \in 1..Len(cells) |-> CellMarkdown(cells[i])]
        dashes == [i \in 1..Len(cells) |-> <<"---">>]
    IN  << <<"| ">> \o JoinWith(cellTexts, <<" | ">>) \o <<" |">> >>
        \o (IF ri = 1
            THEN << <<"| ">> \o JoinWith(dashes, <<" | ">>) \o <<" |">> >>
            ELSE <<>>)

\* cells.map is no method of a non-array
RowMarkdownThrows(row) ==
    \/ IsNullish(row)
    \/ ~IsArray(RowCells(row))
    \/ \E i \in 1..Len(RowCells(row).v) : CellMarkdownThrows(RowCells(row).v[i])

\* case 'table' (server.js 953-973)
TableMarkdown(block) ==
    LET rows == TableRows(block)
    IN  IF ~HasLength(rows) THEN <<>>
        ELSE << <<>> >>
               \o Flatten([ri \in 1..Len(rows.v) |-> RowMarkdown(Elements(rows)[ri], ri)])
               \o << <<>> >>

TableMarkdownThrows(block) ==
    LET rows == TableRows(block)
    IN  /\ HasLength(rows)
        /\ \E ri \in 1..Len(rows.v) : RowMarkdownThrows(Elements(rows)[ri])

\* The switch on block._type (server.js 922-974): the lines pushed
BlockMarkdown(block) ==
    LET type == Get(block, "_type")
    IN  CASE StrictEq(type, Lit("block")) -> TextBlockMarkdown(block)
          [] StrictEq(type, Lit("code")) \/ StrictEq(type, Lit("codeBlock")) ->
               CodeBlockMarkdown(block)
          [] StrictEq(type, Lit("image")) -> ImageMarkdown(block)
          [] StrictEq(type, Lit("table")) -> TableMarkdown(block)
          [] OTHER -> <<>>

BlockMarkdownThrows(block) ==
    LET type == Get(block, "_type")
    IN  CASE StrictEq(type, Lit("block")) -> renderBlockChildrenPlainThrows(block)
          [] StrictEq(type, Lit("image")) -> extractCaptionTextThrows(block)
          [] StrictEq(type, Lit("table")) -> TableMarkdownThrows(block)
          [] OTHER -> FALSE

IsNumbered(block) == StrictEq(Get(block, "listItem"), Lit("number"))

\* The counter keeps its value across a block that is no list item
CounterKept(counter) == counter

\* listCounter = 0 before the switch (server.js 920)
CounterAfterBlock(counter) == 0

\* The counter after a list item (server.js 912-917)
CounterAfterItem(block, counter) ==
    IF IsNumbered(block) THEN counter + 1 ELSE counter

\* The list branch (server.js 910-919)
ListItemMarkdown(block, counter) ==
    LET text == renderBlockChildrenPlain(block)
    IN  IF IsNumbered(block)
        THEN NumberText(counter + 1) \o <<". ">> \o text
        ELSE <<"- ">> \o text

\* .replace(/\n{3,}/g, '\n\n')
RECURSIVE LeadingNewlines(_)
LeadingNewlines(s) ==
    IF s # <<>> /\ Head(s) = NL THEN 1 + LeadingNewlines(Tail(s)) ELSE 0

RECURSIVE CollapseNewlines(_)
CollapseNewlines(s) ==
    IF s = <<>> THEN <<>>
    ELSE LET n == LeadingNewlines(s)
         IN  IF n >= 3 THEN <<NL, NL>> \o CollapseNewlines(SubSeq(s, n + 1, Len(s)))
             ELSE IF n > 0 THEN SubSeq(s, 1, n) \o CollapseNewlines(SubSeq(s, n + 1, Len(s)))
             ELSE <<Head(s)>> \o CollapseNewlines(Tail(s))

----------------------------------------------------------------------------
(* sanityBlocksToMarkdown: the loop *)

InitMarkdown ==
    /\ blocks \in BlockInputs
    /\ mIdx = 1 /\ lines = <<>> /\ listCounter = 0 /\ mdResult = <<>>
    /\ mPc = "loop"
    /\ IdlePayloads /\ IdleHtml /\ IdleArticles /\ IdleSingle /\ IdleDb /\ IdleTranslate /\ IdleMore

InMarkdownLoop == mPc = "loop" /\ IsArray(blocks) /\ mIdx <= Len(blocks.v)

\* if (!Array.isArray(blocks) || blocks.length === 0) return ''
MarkdownNoBlocks ==
    /\ mPc = "loop"
    /\ ~IsArray(blocks) \/ Len(blocks.v) = 0
    /\ mPc' = "done"
    /\ mdResult' = <<>>
    /\ UNCHANGED <<blocks, mIdx, lines, listCounter, rscVars, htmlVars, artVars, oneVars, dbVars, trVars, moreVars>>

\* if (!block || !block._type) continue
MarkdownSkipBlock ==
    /\ InMarkdownLoop
    /\ IsSkipped(blocks.v[mIdx])
    /\ mIdx' = mIdx + 1
    /\ UNCHANGED <<blocks, lines, listCounter, mdResult, mPc, rscVars, htmlVars, artVars, oneVars, dbVars, trVars, moreVars>>

\* if (block.listItem) { ... continue }
MarkdownListItem ==
    /\ InMarkdownLoop
    /\ LET block == blocks.v[mIdx]
       IN  /\ ~IsSkipped(block)
           /\ Truthy(Get(block, "listItem"))
           /\ ~renderBlockChildrenPlainThrows(block)
           /\ lines' = Append(lines, ListItemMarkdown(block, listCounter))
           /\ listCounter' = CounterAfterItem(block, listCounter)
    /\ mIdx' = mIdx + 1
    /\ UNCHANGED <<blocks, mdResult, mPc, rscVars, htmlVars, artVars, oneVars, dbVars, trVars, moreVars>>

\* Any other block: the counter is reset, then the switch on _type
MarkdownBlock ==
    /\ InMarkdownLoop
    /\ LET block == blocks.v[mIdx]
       IN  /\ ~IsSkipped(block)
           /\ ~Truthy(Get(block, "listItem"))
           /\ ~BlockMarkdownThrows(block)
           /\ lines' = lines \o BlockMarkdown(block)
    /\ listCounter' = CounterAfterBlock(listCounter)
    /\ mIdx' = mIdx + 1
    /\ UNCHANGED <<blocks, mdResult, mPc, rscVars, htmlVars, artVars, oneVars, dbVars, trVars, moreVars>>

\* A TypeError inside the loop body leaves the function: nothing catches it
MarkdownThrow ==
    /\ InMarkdownLoop
    /\ LET block == blocks.v[mIdx]
       IN  /\ ~IsSkipped(block)
           /\ IF Truthy(Get(block, "listItem"))
              THEN renderBlockChildrenPlainThrows(block)
              ELSE BlockMarkdownThrows(block)
    /\ mPc' = "thrown"
    /\ UNCHANGED <<blocks, mIdx, lines, listCounter, mdResult, rscVars, htmlVars, artVars, oneVars, dbVars, trVars, moreVars>>

\* return lines.join('\n').replace(/\n{3,}/g, '\n\n').trim()
MarkdownReturn ==
    /\ mPc = "loop" /\ IsArray(blocks)
    /\ Len(blocks.v) > 0 /\ mIdx > Len(blocks.v)
    /\ mdResult' = Trim(CollapseNewlines(JoinWith(lines, <<NL>>)))
    /\ mPc' = "done"
    /\ UNCHANGED <<blocks, mIdx, lines, listCounter, rscVars, htmlVars, artVars, oneVars, dbVars, trVars, moreVars>>

NextMarkdown ==
    \/ MarkdownNoBlocks \/ MarkdownSkipBlock \/ MarkdownListItem
    \/ MarkdownBlock \/ MarkdownThrow \/ MarkdownReturn

SpecMarkdown == InitMarkdown /\ [][NextMarkdown]_vars

----------------------------------------------------------------------------
(* Properties of sanityBlocksToMarkdown *)

\* A block that is neither skipped nor a list item
IsNonListBlock(b) == ~IsSkipped(b) /\ ~Truthy(Get(b, "listItem"))
IsNumberedItem(b) == IsListBlock(b) /\ Get(b, "listItem") = Lit("number")

\* The numbered items up to i that no non-list block separates from i
NumberedSince(bs, i) ==
    { j \in 1..i : /\ IsNumberedItem(bs[j])
                   /\ \A k \in (j + 1)..i : ~IsNonListBlock(bs[k]) }

NumberedLine(bs, i) ==
    IF IsNumberedItem(bs[i])
    THEN << NumberText(Cardinality(NumberedSince(bs, i))) \o <<". ">>
               \o renderBlockChildrenPlain(bs[i]) >>
    ELSE <<>>

IsNumberedPiece(piece) == \E k \in 1..Len(piece) : piece[k] = ". "

\* C10: the numbered items carry 1, 2, 3, ... in order, counted from the last
\* non-list block before them: the first numbered item after any non-list
\* block is numbered 1 again.
NumberingRestartsAfterBlock ==
    (mPc = "done" /\ IsArray(blocks)) =>
        SelectSeq(lines, IsNumberedPiece)
            = Flatten([i \in 1..Len(blocks.v) |-> NumberedLine(blocks.v, i)])

\* [number, divider, number]: a block of unknown type between two items
NumberingRestarted ==
    /\ mPc = "done"
    /\ lines = << <<"1", ". ", "b">>, <<"1", ". ", "b">> >>


----------------------------------------------------------------------------
(* The renderers on blocks whose content holds &, <, > and ", marks, links, *)
(* captions and table cells                                                 *)

MaxContentBlocks == 2

SpanBlock(spans, markDefs) ==
    JObj(<< Prop("_type", Lit("block")), Prop("children", JArr(spans)),
            Prop("markDefs", JArr(markDefs)) >>)

LinkDef(key, href) ==
    JObj(<< Prop("_key", Lit(key)), Prop("_type", Lit("link")),
            Prop("href", JStr(href)) >>)

ContentSamples ==
    { \* a paragraph, bold then italic
      SpanBlock(<< Span(<<"a", "&", "<">>, <<Lit("strong"), Lit("em")>>) >>, <<>>),
      \* a list item: a link, a mark that resolves to nothing, then code
      JObj(<< Prop("_type", Lit("block")), Prop("listItem", Lit("bullet")),
              Prop("children",
                   JArr(<< Span(<<"b", DQ, ">">>,
                                <<Lit("k1"), Lit("zz"), Lit("code")>>) >>)),
              Prop("markDefs", JArr(<< LinkDef("k1", <<"u", "&", DQ>>) >>)) >>),
      JObj(<< Prop("_type", Lit("code")), Prop("language", JStr(<<DQ, ">">>)),
              Prop("code", JStr(<<"<", "c", ">">>)) >>),
      JObj(<< Prop("_type", Lit("image")), Prop("url", JStr(<<"u", DQ>>)),
              Prop("alt", JStr(<<"<", "d">>)),
              Prop("caption",
                   JArr(<< SpanBlock(<< Span(<<"e", "&">>, <<>>) >>, <<>>) >>)) >>),
      \* a table of one row: a string cell, a tableCell and an array cell
      JObj(<< Prop("_type", Lit("table")),
              Prop("rows",
                   JArr(<< JObj(<< Prop("cells",
                       JArr(<< JStr(<<"<", "f">>),
                               JObj(<< Prop("_type", Lit("tableCell")),
                                       Prop("content",
                                            JArr(<< SpanBlock(<< Span(<<"&">>, <<>>) >>,
                                                              <<>>) >>)) >>),
                               JArr(<< SpanBlock(<< Span(<<">">>, <<>>) >>, <<>>) >>)
                            >>)) >>) >>)) >>),
      \* paragraphs of one blank, plain and bold
      SpanBlock(<< Span(<<" ">>, <<>>) >>, <<>>),
      SpanBlock(<< Span(<<" ">>, <<Lit("strong")>>) >>, <<>>),
      JNull,
      \* a table whose only row is null
      JObj(<< Prop("_type", Lit("table")), Prop("rows", JArr(<< JNull >>)) >>) }

ContentInputs ==
    {JNull} \cup { JArr(bs) : bs \in SeqsOf(ContentSamples, 0, MaxContentBlocks) }

InitHtmlContent ==
    /\ blocks \in ContentInputs
    /\ hIdx = 1 /\ htmlOut = <<>> /\ currentList = "" /\ htmlResult = <<>>
    /\ hPc = "loop"
    /\ IdlePayloads /\ IdleMarkdown /\ IdleArticles /\ IdleSingle /\ IdleDb /\ IdleTranslate /\ IdleMore

SpecHtmlContent == InitHtmlContent /\ [][NextHtml]_vars

InitMarkdownContent ==
    /\ blocks \in ContentInputs
    /\ mIdx = 1 /\ lines = <<>> /\ listCounter = 0 /\ mdResult = <<>>
    /\ mPc = "loop"
    /\ IdlePayloads /\ IdleHtml /\ IdleArticles /\ IdleSingle /\ IdleDb /\ IdleTranslate /\ IdleMore

SpecMarkdownContent == InitMarkdownContent /\ [][NextMarkdown]_vars

\* In the output the markup the renderer writes is lexemes; a character of
\* these comes from the content
RawSpecials == {"&", "<", ">", DQ}
Entities == {"&amp;", "&lt;", "&gt;", "&quot;"}

\* C14: in the output of sanityBlocksToHtml no &, <, > or " that comes from
\* block content (span text, code text and language, link href, image url
\* and alt, caption text, string table cells) appears unescaped.
ContentEscaped ==
    hPc = "done" => \A i \in 1..Len(htmlResult) : htmlResult[i] \notin RawSpecials

\* C15: sanityBlocksToMarkdown does not HTML-escape text: span text, code
\* text, image alt and caption text and table cell text appear with their
\* &, <, > and " unchanged, so no entity is written.
MarkdownNotEscaped ==
    mPc = "done" => \A i \in 1..Len(mdResult) : mdResult[i] \notin Entities

\* What a mark writes before and after the text it wraps: nothing when it is
\* no built-in mark and resolves to no link definition with an href
Opening(mark, markDefs) ==
    LET def == FindDef(markDefs, mark)
    IN  CASE mark = Lit("strong") -> <<"<strong>">>
          [] mark = Lit("em") -> <<"<em>">>
          [] mark = Lit("code") -> <<"<code>">>
          [] OTHER -> IF IsLinkDef(def)
                      THEN <<"<a href=\"">> \o escapeHtml(Get(def, "href")) \o <<"\">">>
                      ELSE <<>>

Closing(mark, markDefs) ==
    IF Opening(mark, markDefs) = <<>> THEN <<>>
    ELSE IF mark \in {Lit("strong"), Lit("em"), Lit("code")}
    THEN <<CloseTag(mark.v[1])>>
    ELSE <<"</a>">>

\* The span as the claim has it: the openings from the last mark to the
\* first, the escaped text, the closings from the first mark to the last
NestedSpan(child, markDefs) ==
    LET marks == Get(child, "marks").v
        k == Len(marks)
    IN  Flatten([i \in 1..k |-> Opening(marks[k + 1 - i], markDefs)])
           \o escapeHtml(Get(child, "text"))
           \o Flatten([i \in 1..k |-> Closing(marks[i], markDefs)])

NestedChildren(block) ==
    LET children == Get(block, "children").v
    IN  Flatten([i \in 1..Len(children) |->
                    NestedSpan(children[i], Get(block, "markDefs").v)])

IsTextBlock(b) ==
    ~IsSkipped(b) /\ StrictEq(Get(b, "_type"), Lit("block")) /\ HasChildren(b)

\* C16: inline marks nest in application order: a span with marks m1..mk is
\* rendered as its text wrapped by m1 first and by mk last, so the wrapper of
\* the last mark is outermost (strong, em, code, or a link when the mark
\* resolves to a link definition with an href); a mark that resolves to
\* nothing leaves the text unchanged.
MarksNestInOrder ==
    (hPc = "done" /\ IsArray(blocks)) =>
        \A i \in 1..Len(blocks.v) :
            LET b == blocks.v[i]
                content == NestedChildren(b)
            IN  IsTextBlock(b) =>
                    IF Truthy(Get(b, "listItem"))
                    THEN \E k \in 1..Len(htmlOut) : htmlOut[k] = Wrap("li", content)
                    ELSE Trim(content) # <<>> =>
                            \E k \in 1..Len(htmlOut) : htmlOut[k] = Wrap("p", content)

\* A list item with the marks link, unresolved, code: the code wrapper is
\* outside the link and the unresolved mark left no trace
CodeWrapsLink ==
    /\ hPc = "done"
    /\ \E k \in 1..Len(htmlOut) :
          htmlOut[k] = <<"<li>", "<code>", "<a href=\"", "u", "&amp;", "&quot;", "\">",
                         "b", "&quot;", "&gt;", "</a>", "</code>", "</li>">>
    /\ \E k \in 1..Len(htmlOut) :
          htmlOut[k] = <<"<p>", "<em>", "<strong>", "a", "&amp;", "&lt;",
                         "</strong>", "</em>", "</p>">>

\* <p>, nothing or white space, </p>
IsEmptyParagraph(piece) ==
    /\ Len(piece) >= 2 /\ piece[1] = "<p>" /\ piece[Len(piece)] = "</p>"
    /\ \A k \in 2..(Len(piece) - 1) : piece[k] \in Whitespace

\* C17: sanityBlocksToHtml never emits an empty paragraph: a paragraph whose
\* rendered children trim to the empty string produces no <p> element, so no
\* <p></p> and no <p> with only white space is in the output.
NoEmptyParagraph ==
    /\ \A k \in 1..Len(htmlOut) : ~IsEmptyParagraph(htmlOut[k])
    /\ hPc = "done" =>
          \A i, j \in 1..Len(htmlResult) :
              i < j => ~IsEmptyParagraph(SubSeq(htmlResult, i, j))

\* [blank paragraph, paragraph]: only the second one was written
BlankParagraphLeftOut ==
    /\ hPc = "done" /\ IsArray(blocks) /\ Len(blocks.v) = 2
    /\ blocks.v[1] = SpanBlock(<< Span(<<" ">>, <<>>) >>, <<>>)
    /\ htmlOut = << <<"<p>", "<em>", "<strong>", "a", "&amp;", "&lt;",
                      "</strong>", "</em>", "</p>">> >>

----------------------------------------------------------------------------
(* Regular expressions, as RegExp.prototype.exec runs them: a pattern is a   *)
(* sequence of items, matched by backtracking in priority order.  A class   *)
(* is [neg, set]: the symbols in set, or all the others.                    *)

\* A literal run of symbols, and the same after \s* (the literals of this
\* program begin with no whitespace, so the greedy \s* never gives back)
Str(s) == [k |-> "lit", a |-> [ws |-> FALSE, s |-> s]]
WsStr(s) == [k |-> "lit", a |-> [ws |-> TRUE, s |-> s]]
\* [^...]*? and [\s\S]*?
LazyNot(ex) == [k |-> "lazy", a |-> [neg |-> TRUE, set |-> ex]]
\* ([^...]+) and ([^...]*) as capture group g
CaptureNot(g, ex, min) ==
    [k |-> "greedy", a |-> [neg |-> TRUE, set |-> ex, min |-> min, g |-> g]]
\* (?: the next n items )?
Maybe(n) == [k |-> "opt", a |-> n]

\* "name" as the pattern writes a key
Quoted(name) == <<DQ, name, DQ>>

InClass(c, x) == IF c.neg THEN x \notin c.set ELSE x \in c.set

RECURSIVE RunLength(_, _, _)
RunLength(t, p, c) ==
    IF p <= Len(t) /\ InClass(c, t[p]) THEN 1 + RunLength(t, p + 1, c) ELSE 0

RECURSIVE SkipWs(_, _)
SkipWs(t, p) ==
    IF p <= Len(t) /\ t[p] \in Whitespace THEN SkipWs(t, p + 1) ELSE p

NoMatch == [ok |-> FALSE, start |-> 0, end |-> 0, caps |-> <<>>]

\* The items from the k-th on, matched at position p
RECURSIVE RxMatch(_, _, _, _, _)
RECURSIVE RxLazy(_, _, _, _, _)
RECURSIVE RxGreedy(_, _, _, _, _, _)
RxMatch(t, rx, k, p, caps) ==
    IF k > Len(rx) THEN [ok |-> TRUE, start |-> 0, end |-> p, caps |-> caps]
    ELSE LET it == rx[k]
         IN  CASE it.k = "lit" ->
                    LET q == IF it.a.ws THEN SkipWs(t, p) ELSE p
                        n == Len(it.a.s)
                    IN  IF q + n - 1 <= Len(t) /\ SubSeq(t, q, q + n - 1) = it.a.s
                        THEN RxMatch(t, rx, k + 1, q + n, caps) ELSE NoMatch
               [] it.k = "opt" ->
                    LET r == RxMatch(t, rx, k + 1, p, caps)
                    IN  IF r.ok THEN r ELSE RxMatch(t, rx, k + it.a + 1, p, caps)
               [] it.k = "lazy" -> RxLazy(t, rx, k, p, caps)
               [] OTHER -> RxGreedy(t, rx, k, p, RunLength(t, p, it.a), caps)

\* Lazy: the shortest run after which the rest matches
RxLazy(t, rx, k, p, caps) ==
    LET r == RxMatch(t, rx, k + 1, p, caps)
    IN  IF r.ok THEN r
        ELSE IF p <= Len(t) /\ InClass(rx[k].a, t[p])
        THEN RxLazy(t, rx, k, p + 1, caps)
        ELSE NoMatch

\* Greedy: the longest run, of n symbols, after which the rest matches
RxGreedy(t, rx, k, p, n, caps) ==
    IF n < rx[k].a.min THEN NoMatch
    ELSE LET r == RxMatch(t, rx, k + 1, p + n,
                          [caps EXCEPT ![rx[k].a.g] = <<p, p + n>>])
         IN  IF r.ok THEN r ELSE RxGreedy(t, rx, k, p, n - 1, caps)

\* rx.exec(t) with lastIndex = from - 1: the leftmost match at or after from.
\* groups is the number of capture groups; <<0, 0>> is a group that took no
\* part in the match.
RECURSIVE RxExec(_, _, _, _)
RxExec(t, rx, from, groups) ==
    IF from > Len(t) + 1 THEN NoMatch
    ELSE LET r == RxMatch(t, rx, 1, from, [g \in 1..groups |-> <<0, 0>>])
         IN  IF r.ok THEN [r EXCEPT !.start = from]
             ELSE RxExec(t, rx, from + 1, groups)

\* match[g]: the captured text; undefined is read as '' by every caller
Group(t, m, g) == SubSeq(t, m.caps[g][1], m.caps[g][2] - 1)

----------------------------------------------------------------------------
(* JSON.parse over a text of symbols.  A key or a word inside a string is   *)
(* one symbol; the structural characters, the quote and the backslash are   *)
(* symbols of their own.                                                    *)

At(t, p) == IF p >= 1 /\ p <= Len(t) THEN t[p] ELSE ""

NoParse == [ok |-> FALSE, v |-> Undefined, p |-> 0]
Parsed(v, p) == [ok |-> TRUE, v |-> v, p |-> p]

\* The character an escape stands for
Escapes == [c \in {DQ, BS, "/", "n", "t"} |->
              CASE c = "n" -> NL [] c = "t" -> TAB [] OTHER -> c]

\* A string, from the symbol after its opening quote
RECURSIVE ParseString(_, _, _)
ParseString(t, p, acc) ==
    LET c == At(t, p)
    IN  CASE c = "" \/ c \in {NL, TAB} -> NoParse
          [] c = DQ -> Parsed(JStr(acc), p + 1)
          [] c = BS -> IF At(t, p + 1) \in DOMAIN Escapes
                       THEN ParseString(t, p + 2, Append(acc, Escapes[At(t, p + 1)]))
                       ELSE NoParse
          [] OTHER -> ParseString(t, p + 1, Append(acc, c))

\* obj[key] = val
SetProp(props, key, val) ==
    IF \E i \in 1..Len(props) : props[i][1] = key
    THEN [i \in 1..Len(props) |->
             IF props[i][1] = key THEN <<key, val>> ELSE props[i]]
    ELSE Append(props, <<key, val>>)

RECURSIVE ParseValue(_, _)
RECURSIVE ParseMembers(_, _, _)
RECURSIVE ParseElements(_, _, _)
ParseValue(t, p) ==
    LET c == At(t, p)
    IN  CASE c = "{" ->
               IF At(t, SkipWs(t, p + 1)) = "}"
               THEN Parsed(JObj(<<>>), SkipWs(t, p + 1) + 1)
               ELSE ParseMembers(t, SkipWs(t, p + 1), <<>>)
          [] c = "[" ->
               IF At(t, SkipWs(t, p + 1)) = "]"
               THEN Parsed(JArr(<<>>), SkipWs(t, p + 1) + 1)
               ELSE ParseElements(t, SkipWs(t, p + 1), <<>>)
          [] c = DQ -> ParseString(t, p + 1, <<>>)
          [] c = "null" -> Parsed(JNull, p + 1)
          [] c = "true" -> Parsed(JBool(TRUE), p + 1)
          [] c = "false" -> Parsed(JBool(FALSE), p + 1)
          [] OTHER -> NoParse

\* "key": value, then a comma and the next member or the closing brace
ParseMembers(t, p, props) ==
    IF At(t, p) # DQ THEN NoParse
    ELSE LET key == ParseString(t, p + 1, <<>>)
             colon == SkipWs(t, key.p)
             val == ParseValue(t, SkipWs(t, colon + 1))
             after == SkipWs(t, val.p)
         IN  IF ~key.ok \/ At(t, colon) # ":" THEN NoParse
             ELSE IF ~val.ok THEN NoParse
             ELSE IF At(t, after) = ","
             THEN ParseMembers(t, SkipWs(t, after + 1), SetProp(props, key.v.v, val.v))
             ELSE IF At(t, after) = "}"
             THEN Parsed(JObj(SetProp(props, key.v.v, val.v)), after + 1)
             ELSE NoParse

ParseElements(t, p, items) ==
    LET val == ParseValue(t, p)
        after == SkipWs(t, val.p)
    IN  IF ~val.ok THEN NoParse
        ELSE IF At(t, after) = ","
        THEN ParseElements(t, SkipWs(t, after + 1), Append(items, val.v))
        ELSE IF At(t, after) = "]"
        THEN Parsed(JArr(Append(items, val.v)), after + 1)
        ELSE NoParse

\* JSON.parse(t): ok is FALSE where it throws a SyntaxError
JsonParse(t) ==
    LET r == ParseValue(t, SkipWs(t, 1))
    IN  IF r.ok /\ SkipWs(t, r.p) > Len(t) THEN r ELSE NoParse

\* JSON.stringify(v) for the values JSON.parse yields
RECURSIVE JsonText(_)
JsonText(v) ==
    CASE v.t = "string" -> <<DQ>> \o JsonEscape(v.v) \o <<DQ>>
      [] v.t = "null" -> <<"null">>
      [] v.t = "boolean" -> IF v.v THEN <<"true">> ELSE <<"false">>
      [] v.t = "array" ->
           <<"[">> \o JoinWith([i \in 1..Len(v.v) |-> JsonText(v.v[i])], <<",">>)
              \o <<"]">>
      [] OTHER ->
           <<"{">> \o JoinWith([i \in 1..Len(v.v) |->
                                   <<DQ>> \o JsonEscape(v.v[i][1]) \o <<DQ, ":">>
                                      \o JsonText(v.v[i][2])],
                               <<",">>)
              \o <<"}">>

----------------------------------------------------------------------------
(* parseAnthropicArticles (server.js 598-687): the base path and the stub   *)

BaseUrl == <<"https://www.anthropic.com">>

\* new URL(feedUrl) throws unless the text begins with an origin; pathname
\* is what follows it up to ? or #, and "/" when nothing does
UrlParses(u) == u # <<>> /\ Head(u) = Head(BaseUrl)

RECURSIVE Pathname(_)
Pathname(rest) ==
    IF rest = <<>> \/ Head(rest) \in {"?", "#"} THEN <<>>
    ELSE <<Head(rest)>> \o Pathname(Tail(rest))

\* server.js 603-607
BasePath(u) ==
    IF ~UrlParses(u) THEN <<"/", "engineering">>
    ELSE LET path == IF Pathname(Tail(u)) = <<>> THEN <<"/">> ELSE Pathname(Tail(u))
         IN  IF path[Len(path)] = "/" THEN SubSeq(path, 1, Len(path) - 1) ELSE path

\* payloads.join('\n')
Combined == JoinWith(articlePayloads, <<NL>>)

StubUrl(slug) == BaseUrl \o BasePath(feedUrl) \o <<"/">> \o TemplateText(slug)

Stub(title, slug, publishedOn, summary) ==
    [title |-> title, slug |-> slug, publishedOn |-> publishedOn,
     summary |-> summary, url |-> StubUrl(slug)]

\* Nothing has been seen
NeverSeen(seen, slug) == FALSE

\* seenSlugs.has(slug): objects are compared by identity, and no two values
\* read from the text are the same object
SeenHas(seen, slug) == slug.t \notin {"object", "array"} /\ slug \in seen

\* typeof value.slug === 'object' ? value.slug.current : value.slug
ResolveSlug(value) ==
    LET slug == Get(value, "slug")
    IN  IF slug.t \in {"object", "array", "null"} THEN Get(slug, "current") ELSE slug

\* if (value.title && value.slug) { ...; if (slug && !seenSlugs.has(slug))
Emits(value, seen) ==
    /\ Truthy(Get(value, "title")) /\ Truthy(Get(value, "slug"))
    /\ Truthy(ResolveSlug(value))
    /\ ~SeenHas(seen, ResolveSlug(value))

\* server.js 1159-1165 and 670-676
StubOf(value) ==
    Stub(Get(value, "title"), ResolveSlug(value),
         Or(Or(Get(value, "publishedOn"), Get(value, "date")), EmptyString),
         Or(Or(Get(value, "summary"), Get(value, "description")), EmptyString))

----------------------------------------------------------------------------
(* extractArticlesFromJson (server.js 1099-1139)                            *)

\* The scan gives up 100000 characters after the start (server.js 1120)
ScanCap == 100000

\* The next of jsonStarts at or after position from; 0 when there is none
RECURSIVE NextStart(_, _)
NextStart(data, from) ==
    IF from > Len(data) THEN 0
    ELSE IF data[from] \in {"[", "{"} THEN from
    ELSE NextStart(data, from + 1)

CloseOf(bracket) == IF bracket = "[" THEN "]" ELSE "}"

\* The depth count (server.js 1117-1127): the position of the bracket that
\* brings depth back to 0, or 0.  used is the number of characters behind;
\* a symbol stands for as many characters as it has.
RECURSIVE FindEnd(_, _, _, _, _)
FindEnd(data, bracket, i, depth, used) ==
    IF i > Len(data) \/ used >= ScanCap THEN 0
    ELSE LET d == CASE data[i] = bracket -> depth + 1
                    [] data[i] = CloseOf(bracket) -> depth - 1
                    [] OTHER -> depth
         IN  IF d = 0 THEN i
             ELSE FindEnd(data, bracket, i + 1, d, used + Len(data[i]))

\* parsedRanges.some(([s, e]) => start >= s && start < e)
Covered(ranges, start) ==
    \E k \in 1..Len(ranges) : start >= ranges[k][1] /\ start < ranges[k][2]

\* What the loop body does with one start: the parsed fragment, or ok FALSE
\* where it continues without one
Fragment(data, ranges, start) ==
    LET end == FindEnd(data, data[start], start, 0, 0)
    IN  IF Covered(ranges, start) \/ end = 0 THEN NoParse
        ELSE [JsonParse(SubSeq(data, start, end)) EXCEPT !.p = end + 1]

\* JSON.parse throws a SyntaxError on the fragment that starts at start
FragmentRejected(data, ranges, start) ==
    LET end == FindEnd(data, data[start], start, 0, 0)
    IN  /\ ~Covered(ranges, start) /\ end # 0
        /\ ~JsonParse(SubSeq(data, start, end)).ok

\* No handler around JSON.parse: the SyntaxError leaves the function
Uncaught(pc) == "thrown"

\* catch { } (server.js 1135-1137): the loop over the starts goes on
CatchNotJson(pc) == pc

----------------------------------------------------------------------------
(* The fallback patterns (server.js 624, 640, 659)                          *)

\* "name"\s*:\s*"(...)" with capture group g
Field(name, g, min) ==
    <<Str(Quoted(name)), WsStr(<<":">>), WsStr(<<DQ>>), CaptureNot(g, {DQ}, min),
      Str(<<DQ>>)>>

\* "slug"\s*:\s*\{\s*"current"\s*:\s*"([^"]+)"\s*\}
SlugObject(g) ==
    <<Str(Quoted("slug")), WsStr(<<":">>), WsStr(<<"{">>), WsStr(Quoted("current")),
      WsStr(<<":">>), WsStr(<<DQ>>), CaptureNot(g, {DQ}, 1), Str(<<DQ>>),
      WsStr(<<"}">>)>>

\* (?:[^}]*?"summary"\s*:\s*"([^"]*)")?
OptionalSummary == <<Maybe(6), LazyNot({"}"})>> \o Field("summary", 4, 0)

pattern1 ==
    Field("title", 1, 1) \o <<LazyNot({"}"})>> \o SlugObject(2)
        \o <<LazyNot({"}"})>> \o Field("publishedOn", 3, 1) \o OptionalSummary

pattern2 ==
    SlugObject(1) \o <<LazyNot({"}"})>> \o Field("title", 2, 1)
        \o <<LazyNot({"}"})>> \o Field("publishedOn", 3, 1) \o OptionalSummary

jsonArrayRegex ==
    <<Str(<<"[">>), LazyNot({}), Str(<<"{">>), LazyNot({"}"}), Str(Quoted("title")),
      LazyNot({"}"}), Str(Quoted("slug")), LazyNot({"}"}), Str(<<"}">>),
      LazyNot({}), Str(<<"]">>)>>

\* server.js 1373-1380
unescapeJsonString(str) ==
    ReplacePair(ReplacePair(ReplacePair(ReplacePair(str,
        BS, "n", <<NL>>), BS, "t", <<TAB>>), BS, DQ, <<DQ>>), BS, BS, <<BS>>)

\* The stub of one match of pattern1 or pattern2 (server.js 629-635)
MatchStub(data, m, titleGroup, slugGroup) ==
    Stub(JStr(unescapeJsonString(Group(data, m, titleGroup))),
         JStr(Group(data, m, slugGroup)),
         JStr(Group(data, m, 3)),
         JStr(unescapeJsonString(Group(data, m, 4))))

\* The loop over the items of one parsed array (server.js 665-679): reading
\* item.title of a null item throws, and the catch of line 681 ends the loop
RECURSIVE ArrayItems(_, _, _)
ArrayItems(items, found, seen) ==
    IF items = <<>> \/ IsNullish(Head(items))
    THEN [articles |-> found, seen |-> seen]
    ELSE IF Emits(Head(items), seen)
    THEN ArrayItems(Tail(items), Append(found, StubOf(Head(items))),
                    seen \cup {ResolveSlug(Head(items))})
    ELSE ArrayItems(Tail(items), found, seen)

----------------------------------------------------------------------------
(* The inputs of parseAnthropicArticles: payloads written from objects with *)
(* JSON.stringify, as the tests write them, and fragments cut out of one.   *)

MaxPayloads == 2

Article(title, slug, more) ==
    JObj(<<Prop("title", JStr(title)), Prop("slug", slug)>> \o more)

SlugOf(name) == JObj(<<Prop("current", Lit(name))>>)

\* An object without its braces, as a payload that was cut carries it
Inner(value) == SubSeq(JsonText(value), 2, Len(JsonText(value)) - 1)

\* A sample is the object a payload was written from, or - for a fragment -
\* its text
Documents ==
    << \* top level, the slug a string
       Article(<<"A">>, Lit("s"), <<>>),
       \* in an array; the first shares its slug with the sample above
       JArr(<< Article(<<"B">>, SlugOf("s"), <<Prop("publishedOn", Lit("d"))>>),
               Article(<<"C">>, Lit("u"), <<>>) >>),
       \* inside objects, and one article inside another
       JObj(<< Prop("data",
                    Article(<<"D">>, Lit("p"),
                            <<Prop("sub", Article(<<"E">>, Lit("q"),
                                                  <<Prop("date", Lit("d"))>>))>>)) >>),
       \* a closing brace in the title
       Article(<<"F", "}">>, Lit("s"), <<>>),
       \* opening brackets in a string value, and a null item after the article
       JArr(<< Article(<<"I">>, Lit("w"), <<Prop("x", JStr(<<"[", "{">>))>>),
               JNull >>),
       \* an empty slug
       Article(<<"K">>, EmptyString, <<>>) >>

Fragments ==
    << \* title first, the slug an object
       Inner(Article(<<"G">>, SlugOf("s"),
                     <<Prop("publishedOn", Lit("d")), Prop("summary", Lit("m"))>>)),
       \* slug first
       Inner(JObj(<< Prop("slug", SlugOf("u")), Prop("title", Lit("H")),
                     Prop("publishedOn", Lit("d")) >>)) >>

PayloadSamples ==
    { [text |-> JsonText(Documents[i]), doc |-> <<Documents[i]>>] : i \in DOMAIN Documents }
        \cup { [text |-> Fragments[i], doc |-> <<>>] : i \in DOMAIN Fragments }

FeedUrls ==
    { BaseUrl \o <<"/", "research", "/">>, BaseUrl, <<>> }

\* Every value inside v, v first, in the order of the text
RECURSIVE SubValues(_)
SubValues(v) ==
    <<v>> \o (CASE v.t = "array" -> Flatten([i \in 1..Len(v.v) |-> SubValues(v.v[i])])
                [] v.t = "object" ->
                     Flatten([i \in 1..Len(v.v) |-> SubValues(v.v[i][2])])
                [] OTHER -> <<>>)

\* Article-shaped: an object with a title and a slug, the slug a string or
\* {current: string}
IsArticleShaped(v) ==
    /\ v.t = "object" /\ Get(v, "title").t = "string"
    /\ \/ Get(v, "slug").t = "string"
       \/ Get(Get(v, "slug"), "current").t = "string"

ArticleObjects(docs) ==
    SelectSeq(Flatten([i \in 1..Len(docs) |-> SubValues(docs[i])]), IsArticleShaped)

InitArticles ==
    /\ \E samples \in SeqsOf(PayloadSamples, 0, MaxPayloads) :
          /\ articlePayloads = [i \in 1..Len(samples) |-> samples[i].text]
          /\ embedded = ArticleObjects(Flatten([i \in 1..Len(samples) |-> samples[i].doc]))
    /\ feedUrl \in FeedUrls
    /\ articles = <<>> /\ seenSlugs = {} /\ jsonPos = 1 /\ parsedRanges = <<>>
    /\ walkStack = <<>> /\ rxIndex = 1 /\ aPc = "json"
    /\ blocks = [t |-> "null", v |-> <<>>]
    /\ IdlePayloads /\ IdleHtml /\ IdleMarkdown /\ IdleSingle /\ IdleDb /\ IdleTranslate /\ IdleMore

----------------------------------------------------------------------------
(* parseAnthropicArticles: the steps *)

notArticles == <<rscVars, blocks, htmlVars, mdVars, oneVars, dbVars, trVars, moreVars>>

\* for (const start of jsonStarts): a start inside a parsed range, without a
\* matching end, or whose fragment JSON.parse rejects
JsonSkipStart ==
    /\ aPc = "json"
    /\ NextStart(Combined, jsonPos) # 0
    /\ ~Fragment(Combined, parsedRanges, NextStart(Combined, jsonPos)).ok
    /\ jsonPos' = NextStart(Combined, jsonPos) + 1
    /\ aPc' = IF FragmentRejected(Combined, parsedRanges, NextStart(Combined, jsonPos))
              THEN CatchNotJson(aPc) ELSE aPc
    /\ UNCHANGED <<articlePayloads, feedUrl, embedded, articles, seenSlugs,
                   parsedRanges, walkStack, rxIndex, notArticles>>

\* The fragment parses: its range is kept and its value walked
JsonParseFragment ==
    /\ aPc = "json"
    /\ NextStart(Combined, jsonPos) # 0
    /\ LET start == NextStart(Combined, jsonPos)
           parsed == Fragment(Combined, parsedRanges, start)
       IN  /\ parsed.ok
           /\ parsedRanges' = Append(parsedRanges, <<start, parsed.p>>)
           /\ walkStack' = <<parsed.v>>
           /\ jsonPos' = start + 1
    /\ aPc' = "walk"
    /\ UNCHANGED <<articlePayloads, feedUrl, embedded, articles, seenSlugs,
                   rxIndex, notArticles>>

\* A walk that returns after an object that looks like an article
ChildrenUnlessArticle(value) ==
    CASE ~Truthy(value) -> <<>>
      [] value.t = "array" -> value.v
      [] value.t = "object" ->
           IF Truthy(Get(value, "title")) /\ Truthy(Get(value, "slug")) THEN <<>>
           ELSE SelectSeq([i \in 1..Len(value.v) |-> value.v[i][2]],
                          LAMBDA val : Truthy(val) /\ val.t \in {"object", "array"})
      [] OTHER -> <<>>

\* What a call of walkJsonForArticles on value leaves to be walked
Children(value) ==
    CASE ~Truthy(value) -> <<>>
      [] value.t = "array" -> value.v
      [] value.t = "object" ->
           SelectSeq([i \in 1..Len(value.v) |-> value.v[i][2]],
                     LAMBDA val : Truthy(val) /\ val.t \in {"object", "array"})
      [] OTHER -> <<>>

AfterWalk(stack) == IF stack = <<>> THEN "json" ELSE "walk"

\* walkJsonForArticles on an article whose slug is new (server.js 1155-1167)
WalkEmit ==
    /\ aPc = "walk"
    /\ LET value == Head(walkStack)
       IN  /\ value.t = "object" /\ Emits(value, seenSlugs)
           /\ seenSlugs' = seenSlugs \cup {ResolveSlug(value)}
           /\ articles' = Append(articles, StubOf(value))
           /\ walkStack' = Children(value) \o Tail(walkStack)
    /\ aPc' = AfterWalk(walkStack')
    /\ UNCHANGED <<articlePayloads, feedUrl, embedded, jsonPos, parsedRanges,
                   rxIndex, notArticles>>

\* walkJsonForArticles on any other value
WalkVisit ==
    /\ aPc = "walk"
    /\ LET value == Head(walkStack)
       IN  /\ ~(value.t = "object" /\ Emits(value, seenSlugs))
           /\ walkStack' = Children(value) \o Tail(walkStack)
    /\ aPc' = AfterWalk(walkStack')
    /\ UNCHANGED <<articlePayloads, feedUrl, embedded, articles, seenSlugs,
                   jsonPos, parsedRanges, rxIndex, notArticles>>

\* The fallback strategies run whatever the walk produced
JsonDoneFallThrough ==
    /\ aPc = "json"
    /\ NextStart(Combined, jsonPos) = 0
    /\ aPc' = "pattern1"
    /\ rxIndex' = 1
    /\ UNCHANGED <<articlePayloads, feedUrl, embedded, articles, seenSlugs,
                   jsonPos, parsedRanges, walkStack, notArticles>>

\* After the loop: if (articles.length === 0) at lines 621 and 657
JsonDone ==
    /\ aPc = "json"
    /\ NextStart(Combined, jsonPos) = 0
    /\ aPc' = IF articles = <<>> THEN "pattern1" ELSE "done"
    /\ rxIndex' = 1
    /\ UNCHANGED <<articlePayloads, feedUrl, embedded, articles, seenSlugs,
                   jsonPos, parsedRanges, walkStack, notArticles>>

\* articles after one match of pattern1 or pattern2 (server.js 626-636)
AfterMatch(m, titleGroup, slugGroup) ==
    IF SeenHas(seenSlugs, JStr(Group(Combined, m, slugGroup))) THEN articles
    ELSE Append(articles, MatchStub(Combined, m, titleGroup, slugGroup))

\* One turn of while ((match = pattern1.exec(combined)) !== null)
Pattern1Match ==
    /\ aPc = "pattern1"
    /\ LET m == RxExec(Combined, pattern1, rxIndex, 4)
       IN  /\ m.ok
           /\ rxIndex' = m.end
           /\ articles' = AfterMatch(m, 1, 2)
           /\ seenSlugs' = seenSlugs \cup {JStr(Group(Combined, m, 2))}
    /\ UNCHANGED <<articlePayloads, feedUrl, embedded, jsonPos, parsedRanges,
                   walkStack, aPc, notArticles>>

Pattern1Done ==
    /\ aPc = "pattern1"
    /\ ~RxExec(Combined, pattern1, rxIndex, 4).ok
    /\ aPc' = "pattern2"
    /\ rxIndex' = 1
    /\ UNCHANGED <<articlePayloads, feedUrl, embedded, articles, seenSlugs,
                   jsonPos, parsedRanges, walkStack, notArticles>>

\* One turn of while ((match = pattern2.exec(combined)) !== null)
Pattern2Match ==
    /\ aPc = "pattern2"
    /\ LET m == RxExec(Combined, pattern2, rxIndex, 4)
       IN  /\ m.ok
           /\ rxIndex' = m.end
           /\ articles' = AfterMatch(m, 2, 1)
           /\ seenSlugs' = seenSlugs \cup {JStr(Group(Combined, m, 1))}
    /\ UNCHANGED <<articlePayloads, feedUrl, embedded, jsonPos, parsedRanges,
                   walkStack, aPc, notArticles>>

Pattern2Done ==
    /\ aPc = "pattern2"
    /\ ~RxExec(Combined, pattern2, rxIndex, 4).ok
    /\ aPc' = IF articles = <<>> THEN "arrays" ELSE "done"
    /\ rxIndex' = 1
    /\ UNCHANGED <<articlePayloads, feedUrl, embedded, articles, seenSlugs,
                   jsonPos, parsedRanges, walkStack, notArticles>>

\* One turn of while ((jsonMatch = jsonArrayRegex.exec(combined)) !== null)
ArrayMatch ==
    /\ aPc = "arrays"
    /\ LET m == RxExec(Combined, jsonArrayRegex, rxIndex, 1)
           parsed == JsonParse(SubSeq(Combined, m.start, m.end - 1))
           after == ArrayItems(parsed.v.v, articles, seenSlugs)
       IN  /\ m.ok
           /\ rxIndex' = m.end
           /\ IF parsed.ok /\ IsArray(parsed.v)
              THEN articles' = after.articles /\ seenSlugs' = after.seen
              ELSE UNCHANGED <<articles, seenSlugs>>
    /\ UNCHANGED <<articlePayloads, feedUrl, embedded, jsonPos, parsedRanges,
                   walkStack, aPc, notArticles>>

\* return articles
ArrayDone ==
    /\ aPc = "arrays"
    /\ ~RxExec(Combined, jsonArrayRegex, rxIndex, 1).ok
    /\ aPc' = "done"
    /\ UNCHANGED <<articlePayloads, feedUrl, embedded, articles, seenSlugs,
                   jsonPos, parsedRanges, walkStack, rxIndex, notArticles>>

NextArticles ==
    \/ JsonSkipStart \/ JsonParseFragment \/ WalkEmit \/ WalkVisit \/ JsonDone
    \/ Pattern1Match \/ Pattern1Done \/ Pattern2Match \/ Pattern2Done
    \/ ArrayMatch \/ ArrayDone

SpecArticles == InitArticles /\ [][NextArticles]_vars

----------------------------------------------------------------------------
(* Properties of parseAnthropicArticles *)

\* The slug of an article-shaped object, as a string value
EmbeddedSlug(a) ==
    IF Get(a, "slug").t = "string" THEN Get(a, "slug")
    ELSE Get(Get(a, "slug"), "current")

\* The stubs that carry a slug
StubsFor(slug) == { k \in 1..Len(articles) : articles[k].slug = slug }

\* The path of the feed URL, a trailing slash stripped
FeedPath ==
    LET path == Pathname(Tail(feedUrl))
    IN  IF path # <<>> /\ path[Len(path)] = "/"
        THEN SubSeq(path, 1, Len(path) - 1) ELSE path

DistinctSlugs ==
    \A i \in 1..Len(embedded) :
        /\ EmbeddedSlug(embedded[i]) # EmptyString
        /\ \A j \in 1..Len(embedded) :
              i # j => EmbeddedSlug(embedded[i]) # EmbeddedSlug(embedded[j])

\* C3: when the article-shaped objects embedded in the payloads have
\* non-empty, pairwise distinct slugs, the returned list holds exactly one
\* stub for each of them, and its url is the site + the feed URL's path
\* (trailing slash stripped) + "/" + the slug.
OneStubPerSlug ==
    (aPc = "done" /\ UrlParses(feedUrl) /\ DistinctSlugs) =>
        \A i \in 1..Len(embedded) :
            LET slug == EmbeddedSlug(embedded[i])
            IN  /\ Cardinality(StubsFor(slug)) = 1
                /\ \A k \in StubsFor(slug) :
                      articles[k].url = BaseUrl \o FeedPath \o <<"/">> \o slug.v

\* The first of the embedded objects that carries a slug
FirstWith(slug) ==
    embedded[Min({ i \in 1..Len(embedded) : EmbeddedSlug(embedded[i]) = slug })]

\* C4: when two embedded article-shaped objects share a (non-empty) slug,
\* the returned list holds exactly one stub for that slug, and its title,
\* publishedOn and summary are those of the first of these objects.
FirstOccurrenceKept ==
    aPc = "done" =>
        \A i, j \in 1..Len(embedded) :
            LET slug == EmbeddedSlug(embedded[i])
                first == FirstWith(slug)
            IN  (i < j /\ slug = EmbeddedSlug(embedded[j]) /\ slug # EmptyString) =>
                    /\ Cardinality(StubsFor(slug)) = 1
                    /\ \A k \in StubsFor(slug) :
                          /\ articles[k].title = Get(first, "title")
                          /\ articles[k].publishedOn
                                = Or(Or(Get(first, "publishedOn"), Get(first, "date")),
                                     EmptyString)
                          /\ articles[k].summary
                                = Or(Or(Get(first, "summary"), Get(first, "description")),
                                     EmptyString)

\* C5: at every point of a call, under the JSON walk, the two patterns and
\* the array parse alike: no stub has an empty slug, no two stubs have the
\* same slug, and the slugs of the stubs are exactly the seen set.
StubSlugsAreSeenSet ==
    /\ \A k \in 1..Len(articles) : Truthy(articles[k].slug)
    /\ \A k, l \in 1..Len(articles) :
          k # l => articles[k].slug # articles[l].slug
    /\ { articles[k].slug : k \in 1..Len(articles) } = seenSlugs

\* Two payloads with three articles, two of them under one slug: the
\* second of the two was turned away
DuplicateSlugTurnedAway ==
    /\ aPc = "done"
    /\ Len(embedded) = 3
    /\ Len(articles) = 2
    /\ seenSlugs = {Lit("s"), Lit("u")}

\* C12: parseAnthropicArticles never throws: whatever the payloads hold
\* (text JSON.parse rejects, cut objects, slugs of unexpected types, arrays
\* with null items) and whatever the feed URL, the call ends by returning a
\* list of stubs; a rejected fragment only leaves its stubs out.
ParseNeverThrows ==
    /\ aPc # "thrown"
    /\ aPc = "done" => \A k \in 1..Len(articles) :
                           DOMAIN articles[k]
                              = {"title", "slug", "publishedOn", "summary", "url"}

\* One payload whose only object JSON.parse rejects, and a feed URL that is
\* no URL: the call returned the empty list
RejectedFragmentSurvived ==
    /\ aPc = "done"
    /\ articlePayloads = <<JsonText(Documents[4])>>
    /\ feedUrl = <<>>
    /\ articles = <<>>

----------------------------------------------------------------------------
(* extractSingleArticleFromRSC (server.js 1268-1368).  Offsets count        *)
(* characters: a symbol stands for as many characters as it has.            *)

ARTICLE_TYPES == <<"engineeringArticle", "post", "researchArticle">>

\* datePos - 500, datePos + 5000, the widened window, the shortest title
WindowBefore == 500
WindowAfter == 5000
WideWindow == 50000
MinTitleLength == 5

RECURSIVE Width(_)
Width(t) == IF t = <<>> THEN 0 ELSE Len(Head(t)) + Width(Tail(t))

\* t.indexOf(pat) as a position in t; 0 when pat does not occur
RECURSIVE IndexOf(_, _, _)
IndexOf(t, pat, from) ==
    IF from + Len(pat) - 1 > Len(t) THEN 0
    ELSE IF SubSeq(t, from, from + Len(pat) - 1) = pat THEN from
    ELSE IndexOf(t, pat, from + 1)

\* t.substring(from, to), from and to counted in characters: the symbols
\* that lie inside whole (a symbol cut by either end matches nothing)
Substring(t, from, to) ==
    LET inside == { k \in 1..Len(t) :
                      /\ Width(SubSeq(t, 1, k - 1)) >= from
                      /\ Width(SubSeq(t, 1, k)) <= to }
    IN  IF inside = {} THEN <<>>
        ELSE SubSeq(t, Min(inside), Min(inside) + Cardinality(inside) - 1)

\* /"name"\s*:\s*"([^"]+)"/
FieldRegex(name) == Field(name, 1, 1)

\* text.match(/"name"\s*:\s*"([^"]+)"/)
MatchField(t, name) == RxExec(t, FieldRegex(name), 1, 1)

\* /^#[0-9a-fA-F]{3,8}$/.test(val)
IsHexColour(val) ==
    /\ Len(val) \in 4..9
    /\ val[1] = "#"
    /\ \A k \in 2..Len(val) : val[k] \in HexDigits

\* The while loop over titleRegex.exec (server.js 1305-1311, 1324-1330):
\* the first value that is no colour and not too short; <<>> when none is
RECURSIVE FirstTitle(_, _)
FirstTitle(t, from) ==
    LET m == RxExec(t, FieldRegex("title"), from, 1)
        val == Group(t, m, 1)
    IN  IF ~m.ok THEN <<>>
        ELSE IF IsHexColour(val) \/ Width(val) < MinTitleLength
        THEN FirstTitle(t, m.end)
        ELSE val

\* The window starts at the discriminator
ClusterFromType(datePos) == 0

\* Math.max(0, datePos - 500)
ClusterStart(datePos) == IF datePos > WindowBefore THEN datePos - WindowBefore ELSE 0

\* Math.min(afterType.length, datePos + 5000)
ClusterEnd(afterType, datePos) ==
    IF Width(afterType) < datePos + WindowAfter
    THEN Width(afterType) ELSE datePos + WindowAfter

typeMarker(articleType) == <<DQ, "_type", DQ, ":", DQ, articleType, DQ>>

\* data.substring(idx)
AfterType(t, articleType) ==
    SubSeq(t, IndexOf(t, typeMarker(articleType), 1), Len(t))

\* server.js 1289-1312: the result after the anchor was found
Anchored(res, afterType) ==
    LET dateMatch == MatchField(afterType, "publishedOn")
        datePos == Width(SubSeq(afterType, 1, dateMatch.start - 1))
        cluster == Substring(afterType, ClusterStart(datePos),
                             ClusterEnd(afterType, datePos))
        summaryMatch == MatchField(cluster, "summary")
        title == FirstTitle(cluster, 1)
    IN  [publishedOn |-> JStr(Group(afterType, dateMatch, 1)),
         summary |-> IF summaryMatch.ok THEN JStr(Group(cluster, summaryMatch, 1))
                     ELSE res.summary,
         title |-> IF title # <<>> THEN JStr(title) ELSE res.title]

\* server.js 1316-1330: the result after the search of the widened window
Widened(res, afterType) ==
    LET window == Substring(afterType, 0,
                            IF Width(afterType) < WideWindow
                            THEN Width(afterType) ELSE WideWindow)
        summaryMatch == MatchField(window, "summary")
        title == FirstTitle(window, 1)
    IN  [publishedOn |-> res.publishedOn,
         summary |-> IF summaryMatch.ok /\ ~Truthy(res.summary)
                     THEN JStr(Group(window, summaryMatch, 1)) ELSE res.summary,
         title |-> IF title # <<>> THEN JStr(title) ELSE res.title]

\* server.js 1346-1356: the object that starts at start, parsed
Standalone(t, start) ==
    LET end == FindEnd(t, "{", start, 0, 0)
    IN  IF end = 0 THEN NoParse ELSE JsonParse(SubSeq(t, start, end))

\* JSON.parse throws a SyntaxError on the text from start to its closing brace
StandaloneRejected(t, start) ==
    LET end == FindEnd(t, "{", start, 0, 0)
    IN  end # 0 /\ ~JsonParse(SubSeq(t, start, end)).ok

\* catch {} (server.js 1363): the loop over the starts goes on
CatchFragment(pc) == pc

\* Any object with a string title is taken
IsTitledObject(parsed) ==
    Truthy(Get(parsed, "title")) /\ Get(parsed, "title").t = "string"

\* server.js 1357-1358
IsArticleObject(parsed) ==
    /\ Truthy(Get(parsed, "title")) /\ Get(parsed, "title").t = "string"
    /\ Truthy(Get(parsed, "_type"))
    /\ \E k \in DOMAIN ARTICLE_TYPES : Get(parsed, "_type") = Lit(ARTICLE_TYPES[k])

\* server.js 1359-1361
FromObject(res, parsed) ==
    [title |-> Get(parsed, "title"),
     summary |-> Or(Get(parsed, "summary"), res.summary),
     publishedOn |-> Or(Get(parsed, "publishedOn"), res.publishedOn)]

\* The next { at or after from; 0 when there is none
RECURSIVE NextBrace(_, _)
NextBrace(t, from) ==
    IF from > Len(t) THEN 0
    ELSE IF t[from] = "{" THEN from
    ELSE NextBrace(t, from + 1)

\* The pages the function is run on.  An input is laid out as the
\* discriminator, filler, the article's fields and what follows them; the
\* fillers stand for body content of the sizes the windows tell apart.
NearFiller == 100
FarFiller == 600
HugeFiller == 60000

\* n characters of body text, as one symbol
RECURSIVE Pad(_)
Pad(n) ==
    IF n = 0 THEN ""
    ELSE IF n % 2 = 1 THEN "x" \o Pad(n - 1)
    ELSE LET half == Pad(n \div 2) IN half \o half

\* "name":"value" as JSON.stringify writes it
FieldText(name, value) == <<DQ, name, DQ, ":">> \o JsonText(JStr(value))

Body(n) == FieldText("body", <<Pad(n)>>)

PageTypes == {"engineeringArticle", "post", "researchArticle", "page"}
Fillers == {"none", "near", "far", "huge", "swatches", "captionNear",
            "captionFar", "dated", "braces"}
TitleKinds == {"plain", "short", "hex", "quoted", "none"}
Orders == {"dateFirst", "titleFirst"}

ArticleDate == <<"2026-02-05">>
ArticleSummary == <<"We built a compiler">>
OtherDate == <<"1999-01-01">>
OtherTitle == <<"Another article">>
Caption == <<"Figure caption">>

\* The title the article has
TitleValue(kind) ==
    CASE kind = "plain" -> <<"Building a C compiler">>
      [] kind = "short" -> <<"Home">>
      [] kind = "hex" -> <<"#", "a", "b", "c">>
      [] kind = "quoted" -> <<"Say ", DQ, "hi", DQ, " now">>
      [] OTHER -> <<>>

FillerFields(kind) ==
    CASE kind = "near" -> <<Body(NearFiller)>>
      [] kind = "far" -> <<Body(FarFiller)>>
      [] kind = "huge" -> <<Body(HugeFiller)>>
      [] kind = "swatches" -> <<FieldText("title", <<"#", "f", "f", "f">>),
                                FieldText("title", <<"#", "a", "b", "c", "d", "e", "f">>)>>
      [] kind = "captionNear" -> <<FieldText("title", Caption)>>
      [] kind = "captionFar" -> <<FieldText("title", Caption), Body(FarFiller)>>
      [] kind = "dated" -> <<FieldText("publishedOn", OtherDate), Body(FarFiller)>>
      [] kind = "braces" -> <<FieldText("body", <<"{", "x", "}">>)>>
      [] OTHER -> <<>>

ArticleFields(l) ==
    LET date == IF l.dated THEN <<FieldText("publishedOn", ArticleDate)>> ELSE <<>>
        summary == IF l.summarised THEN <<FieldText("summary", ArticleSummary)>>
                   ELSE <<>>
        title == IF l.title # "none" THEN <<FieldText("title", TitleValue(l.title))>>
                 ELSE <<>>
    IN  IF l.order = "dateFirst" THEN date \o summary \o title
        ELSE title \o date \o summary

\* Another article's fields after the article's own
TailFields(l) ==
    IF l.related
    THEN <<typeMarker("engineeringArticle"), FieldText("publishedOn", OtherDate),
           FieldText("title", OtherTitle)>>
    ELSE <<>>

PageText(l) ==
    LET fields == JoinWith(<<typeMarker(l.type)>> \o FillerFields(l.filler)
                              \o ArticleFields(l) \o TailFields(l), <<",">>)
    IN  IF l.wrapped THEN <<"{">> \o fields \o <<"}">> ELSE fields

Layouts ==
    [type : PageTypes, filler : Fillers, title : TitleKinds, order : Orders,
     dated : BOOLEAN, summarised : BOOLEAN, related : BOOLEAN, wrapped : BOOLEAN]

NoResult == [title |-> EmptyString, summary |-> EmptyString, publishedOn |-> EmptyString]

InitSingle ==
    /\ layout \in Layouts
    /\ pageData = PageText(layout)
    /\ result = NoResult
    /\ typeIdx = 1 /\ scanPos = 1 /\ sPc = "type"
    /\ blocks = [t |-> "null", v |-> <<>>]
    /\ IdlePayloads /\ IdleHtml /\ IdleMarkdown /\ IdleArticles /\ IdleDb /\ IdleTranslate /\ IdleMore

notSingle == <<rscVars, blocks, htmlVars, mdVars, artVars, dbVars, trVars, moreVars>>

InTypeLoop == sPc = "type" /\ typeIdx <= Len(ARTICLE_TYPES) /\ ~Truthy(result.title)

\* if (idx === -1) continue
SingleTypeMissing ==
    /\ InTypeLoop
    /\ IndexOf(pageData, typeMarker(ARTICLE_TYPES[typeIdx]), 1) = 0
    /\ typeIdx' = typeIdx + 1
    /\ UNCHANGED <<pageData, layout, result, scanPos, sPc, notSingle>>

\* if (dateMatch) { ... }
SingleAnchor ==
    /\ InTypeLoop
    /\ IndexOf(pageData, typeMarker(ARTICLE_TYPES[typeIdx]), 1) # 0
    /\ LET afterType == AfterType(pageData, ARTICLE_TYPES[typeIdx])
       IN  /\ MatchField(afterType, "publishedOn").ok
           /\ result' = Anchored(result, afterType)
    /\ sPc' = "wide"
    /\ UNCHANGED <<pageData, layout, typeIdx, scanPos, notSingle>>

SingleNoAnchor ==
    /\ InTypeLoop
    /\ IndexOf(pageData, typeMarker(ARTICLE_TYPES[typeIdx]), 1) # 0
    /\ ~MatchField(AfterType(pageData, ARTICLE_TYPES[typeIdx]), "publishedOn").ok
    /\ sPc' = "wide"
    /\ UNCHANGED <<pageData, layout, result, typeIdx, scanPos, notSingle>>

\* if (!result.title) { ... } and the end of the loop body
SingleWiden ==
    /\ sPc = "wide" /\ ~Truthy(result.title)
    /\ result' = Widened(result, AfterType(pageData, ARTICLE_TYPES[typeIdx]))
    /\ typeIdx' = IF Truthy(result'.title) THEN typeIdx ELSE typeIdx + 1
    /\ sPc' = "type"
    /\ UNCHANGED <<pageData, layout, scanPos, notSingle>>

\* if (result.title) break
SingleKeep ==
    /\ sPc = "wide" /\ Truthy(result.title)
    /\ sPc' = "type"
    /\ UNCHANGED <<pageData, layout, result, typeIdx, scanPos, notSingle>>

\* After the loop over the types: if (!result.title) { ... }
SingleTypesDone ==
    /\ sPc = "type" /\ ~InTypeLoop
    /\ sPc' = IF Truthy(result.title) THEN "done" ELSE "json"
    /\ scanPos' = NextBrace(pageData, 1)
    /\ UNCHANGED <<pageData, layout, result, typeIdx, notSingle>>

SingleJsonSkip ==
    /\ sPc = "json" /\ scanPos # 0
    /\ LET parsed == Standalone(pageData, scanPos)
       IN  ~(parsed.ok /\ IsArticleObject(parsed.v))
    /\ scanPos' = NextBrace(pageData, scanPos + 1)
    /\ sPc' = IF StandaloneRejected(pageData, scanPos) THEN CatchFragment(sPc) ELSE sPc
    /\ UNCHANGED <<pageData, layout, result, typeIdx, notSingle>>

SingleJsonAccept ==
    /\ sPc = "json" /\ scanPos # 0
    /\ LET parsed == Standalone(pageData, scanPos)
       IN  /\ parsed.ok /\ IsArticleObject(parsed.v)
           /\ result' = FromObject(result, parsed.v)
    /\ sPc' = "done"
    /\ UNCHANGED <<pageData, layout, typeIdx, scanPos, notSingle>>

SingleJsonDone ==
    /\ sPc = "json" /\ scanPos = 0
    /\ sPc' = "done"
    /\ UNCHANGED <<pageData, layout, result, typeIdx, scanPos, notSingle>>

NextSingle ==
    \/ SingleTypeMissing \/ SingleAnchor \/ SingleNoAnchor \/ SingleWiden
    \/ SingleKeep \/ SingleTypesDone \/ SingleJsonSkip \/ SingleJsonAccept
    \/ SingleJsonDone

SpecSingle == InitSingle /\ [][NextSingle]_vars

----------------------------------------------------------------------------
(* Properties of extractSingleArticleFromRSC                                *)

KnownType(l) == \E k \in DOMAIN ARTICLE_TYPES : l.type = ARTICLE_TYPES[k]

\* The three fields the article of the page has
ArticleOf(l) ==
    [title |-> JStr(TitleValue(l.title)), summary |-> JStr(ArticleSummary),
     publishedOn |-> JStr(ArticleDate)]

\* C6: extractSingleArticleFromRSC never returns a title that is a pure hex
\* colour (# and 3 to 8 hex digits), whichever strategy produced the title.
NoHexTitleReturned ==
    sPc = "done" => ~IsHexColour(result.title.v)

FirstInWindow(l) ==
    /\ KnownType(l) /\ l.dated /\ l.summarised
    /\ l.title = "plain"
    /\ l.filler \notin {"captionNear", "dated"}
    /\ l.related => l.type = "engineeringArticle"

NoKnownType(l) == ~KnownType(l) /\ ~l.related

\* C13: extractSingleArticleFromRSC never throws, and on every input that
\* holds no marker and no object of a known article type it returns title,
\* summary and publishedOn all equal to the empty string.
NothingFoundIsEmpty ==
    /\ sPc # "thrown"
    /\ (sPc = "done" /\ NoKnownType(layout)) => result = NoResult

\* A standalone object of type page with a title, a summary and a date: all
\* three fields came back empty
PageObjectIgnored ==
    /\ sPc = "done" /\ NoKnownType(layout)
    /\ layout.wrapped /\ layout.title = "plain" /\ layout.dated /\ layout.summarised
    /\ layout.filler = "braces"
    /\ result = NoResult

----------------------------------------------------------------------------
(* scripts/db.js: the articles table *)

\* A row of the articles table is a function from the column names to
\* strings; SqlNull is the NULL of a column.  An object handed to
\* updateArticle is the sequence of its own properties, <<name, value>>.
SqlNull == "NULL"

fieldMap ==
    << <<"title", "title">>, <<"originalUrl", "original_url">>,
       <<"source", "source">>, <<"sourceUrl", "source_url">>,
       <<"publishedDate", "published_date">>, <<"description", "description">>,
       <<"content", "content">>, <<"slug", "slug">>, <<"status", "status">>,
       <<"fetchedAt", "fetched_at">>, <<"translatedTitle", "translated_title">>,
       <<"translatedContent", "translated_content">>,
       <<"translatedAt", "translated_at">>,
       <<"translationProvider", "translation_provider">>,
       <<"publishedAt", "published_at">> >>

Columns == {fieldMap[i][2] : i \in DOMAIN fieldMap}

\* CREATE TABLE articles: the NOT NULL and the UNIQUE columns
NotNullColumns == {"title", "original_url", "source", "slug"}
UniqueColumns == {"original_url", "slug"}

\* An update that writes every column of fieldMap
InFieldMap(data, jsField) == TRUE

\* data.hasOwnProperty(jsField)
hasOwnProperty(data, jsField) == \E i \in DOMAIN data : data[i][1] = jsField

\* data[jsField]; a property the object lacks is bound as NULL
Param(data, jsField) ==
    IF \E i \in DOMAIN data : data[i][1] = jsField
    THEN data[CHOOSE i \in DOMAIN data : data[i][1] = jsField][2]
    ELSE SqlNull

\* The fields array: the entries of fieldMap the loop pushed
fields(data) == SelectSeq(fieldMap, LAMBDA e : hasOwnProperty(data, e[1]))

\* UPDATE articles SET ... : the row after the assignments
SetRow(row, data) ==
    LET f == fields(data)
    IN  [c \in DOMAIN row |->
            IF \E i \in DOMAIN f : f[i][2] = c
            THEN Param(data, f[CHOOSE i \in DOMAIN f : f[i][2] = c][1])
            ELSE row[c]]

\* a || b
OrElse(a, b) == IF a \in {SqlNull, ""} THEN b ELSE a

rowToArticle(id, row) ==
    [id |-> id,
     title |-> OrElse(row["translated_title"], row["title"]),
     originalTitle |-> row["title"],
     originalUrl |-> row["original_url"],
     source |-> row["source"],
     sourceUrl |-> row["source_url"],
     publishedDate |-> row["published_date"],
     description |-> row["description"],
     content |-> OrElse(row["translated_content"], row["content"]),
     originalContent |-> row["content"],
     slug |-> row["slug"],
     status |-> row["status"],
     fetchedAt |-> row["fetched_at"],
     translatedTitle |-> row["translated_title"],
     translatedContent |-> row["translated_content"],
     translatedAt |-> row["translated_at"],
     translationProvider |-> row["translation_provider"],
     publishedAt |-> row["published_at"]]

getArticleById(table, id) ==
    IF id \in DOMAIN table THEN rowToArticle(id, table[id]) ELSE JNull

\* The statement run by updateArticle fails with a SqliteError: the row it
\* matches would hold NULL in a NOT NULL column, or a value of a UNIQUE
\* column that another row holds
updateArticleThrows(table, id, data) ==
    /\ fields(data) # <<>>
    /\ id \in DOMAIN table
    /\ LET row == SetRow(table[id], data)
       IN  \/ \E c \in NotNullColumns : row[c] = SqlNull
           \/ \E c \in UniqueColumns, other \in DOMAIN table \ {id} :
                 table[other][c] = row[c]

\* updateArticle(id, data): the table after the call and the value returned
updateArticle(table, id, data) ==
    IF fields(data) = <<>>
    THEN [table |-> table, ret |-> JNull]
    ELSE IF id \notin DOMAIN table
         THEN [table |-> table, ret |-> JNull]
         ELSE LET updated == [table EXCEPT ![id] = SetRow(@, data)]
              IN  [table |-> updated, ret |-> getArticleById(updated, id)]

ArticleIds == {"a1", "a2"}

\* The row insertArticle writes for a fetched article
FetchedRow(id) ==
    [c \in Columns |->
        CASE c = "title" -> IF id = "a1" THEN "Title 1" ELSE "Title 2"
          [] c = "original_url" -> IF id = "a1" THEN "https://e.com/1" ELSE "https://e.com/2"
          [] c = "source" -> "Feed"
          [] c = "slug" -> IF id = "a1" THEN "slug-1" ELSE "slug-2"
          [] c = "content" -> "Body"
          [] c = "status" -> "pending"
          [] c = "fetched_at" -> "t0"
          [] OTHER -> SqlNull]

FetchedTable == [id \in ArticleIds |-> FetchedRow(id)]

NoCall == [id |-> "", data |-> <<>>]

\* The ids and the objects updateArticle is called with
CallIds == ArticleIds \cup {"non-existent"}

DataSamples ==
    { << <<"status", "translated">>, <<"translatedTitle", "Translated Title">>,
         <<"translatedContent", "Translated content">> >>,
      << <<"status", "published">> >>,
      << <<"publishedAt", "t1">>, <<"status", "published">> >>,
      << <<"title", "New title">>, <<"views", "7">> >>,
      << <<"translatedTitle", SqlNull>>, <<"status", "pending">> >>,
      << <<"title", SqlNull>>, <<"status", "saved">> >>,
      << <<"slug", "slug-2">>, <<"description", "d">> >>,
      << <<"views", "7">>, <<"id", "a2">> >>,
      << >> }

InitDb ==
    /\ dbArticles = FetchedTable
    /\ dbCall = NoCall /\ dbReturn = <<>> /\ inFlight = {} /\ dbPc = "ready"
    /\ blocks = [t |-> "null", v |-> <<>>]
    /\ IdlePayloads /\ IdleHtml /\ IdleMarkdown /\ IdleArticles /\ IdleSingle
    /\ IdleTranslate /\ IdleMore

notDb == <<rscVars, blocks, htmlVars, mdVars, artVars, oneVars, trVars, moreVars>>

\* A call of updateArticle that returns
DbUpdate ==
    \E id \in CallIds, data \in DataSamples :
        /\ ~updateArticleThrows(dbArticles, id, data)
        /\ dbArticles' = updateArticle(dbArticles, id, data).table
        /\ dbReturn' = updateArticle(dbArticles, id, data).ret
        /\ dbCall' = [id |-> id, data |-> data]
        /\ dbPc' = "returned"
        /\ UNCHANGED <<inFlight, notDb>>

\* catch (error) { ... throw error }
DbUpdateThrows ==
    \E id \in CallIds, data \in DataSamples :
        /\ updateArticleThrows(dbArticles, id, data)
        /\ dbCall' = [id |-> id, data |-> data]
        /\ dbPc' = "thrown"
        /\ UNCHANGED <<dbArticles, dbReturn, inFlight, notDb>>

NextDb == DbUpdate \/ DbUpdateThrows

SpecDb == InitDb /\ [][NextDb]_vars

\* The columns an object names: those of its properties fieldMap knows
Named(data) ==
    {fieldMap[j][2] : j \in {k \in DOMAIN fieldMap :
                                \E i \in DOMAIN data : data[i][1] = fieldMap[k][1]}}

ValueFor(data, c) ==
    data[CHOOSE i \in DOMAIN data :
            \E j \in DOMAIN fieldMap : fieldMap[j] = <<data[i][1], c>>][2]

\* C20: updateArticle(id, data) is a partial update.  A call changes no
\* column but those data names, and those only in the article id; when it
\* returns the article, each named column holds the value data gives it;
\* when data names no known field or id matches no article it returns null
\* and changes nothing; when the statement fails nothing is changed either.
PartialUpdate ==
    [][LET id == dbCall'.id
           data == dbCall'.data
       IN  /\ DOMAIN dbArticles' = DOMAIN dbArticles
           /\ \A a \in DOMAIN dbArticles : \A c \in Columns :
                 dbArticles'[a][c] # dbArticles[a][c]
                     => (a = id /\ c \in Named(data))
           /\ (dbPc' = "returned" /\ dbReturn' # JNull)
                 => /\ id \in DOMAIN dbArticles
                    /\ \A c \in Named(data) : dbArticles'[id][c] = ValueFor(data, c)
                    /\ dbReturn' = rowToArticle(id, dbArticles'[id])
           /\ (Named(data) = {} \/ id \notin DOMAIN dbArticles)
                 => (dbPc' = "returned" /\ dbReturn' = JNull
                     /\ dbArticles' = dbArticles)
           /\ (Named(data) # {} /\ id \in DOMAIN dbArticles /\ dbPc' = "returned")
                 => dbReturn' # JNull
           /\ dbPc' = "thrown" => dbArticles' = dbArticles
      ]_vars

\* The call of the test "updates article fields": status and the translated
\* columns are written, the title column and the other article are not
TranslatedFieldsWritten ==
    /\ dbPc = "returned"
    /\ dbCall.id = "a1" /\ Len(dbCall.data) = 3
    /\ dbArticles["a1"]["status"] = "translated"
    /\ dbArticles["a1"]["translated_title"] = "Translated Title"
    /\ dbArticles["a1"]["title"] = "Title 1"
    /\ dbArticles["a1"]["slug"] = "slug-1"
    /\ dbArticles["a2"] = FetchedRow("a2")
    /\ dbReturn # <<>> /\ dbReturn # JNull
    /\ dbReturn.title = "Translated Title"

----------------------------------------------------------------------------
(* scripts/server.js: the admin routes that write the status of an article *)

getArticleBySlug(table, slug) ==
    IF \E id \in DOMAIN table : table[id]["slug"] = slug
    THEN getArticleById(table, CHOOSE id \in DOMAIN table : table[id]["slug"] = slug)
    ELSE JNull

\* new Date().toISOString()
Now == "now"

\* db.updateArticle(id, data) called by a route or by translateArticle
CallUpdate(id, data) ==
    /\ dbCall' = [id |-> id, data |-> data]
    /\ IF updateArticleThrows(dbArticles, id, data)
       THEN dbPc' = "thrown" /\ UNCHANGED <<dbArticles, dbReturn>>
       ELSE /\ dbArticles' = updateArticle(dbArticles, id, data).table
            /\ dbReturn' = updateArticle(dbArticles, id, data).ret
            /\ dbPc' = "returned"

\* POST /api/articles/:id/toggle-save
ToggleSave ==
    \E articleId \in CallIds :
        LET article == getArticleById(dbArticles, articleId)
        IN  /\ IF article = JNull
               THEN UNCHANGED <<dbArticles, dbCall, dbReturn, dbPc>>
               ELSE LET newStatus == IF article.status = "saved"
                                     THEN "pending" ELSE "saved"
                    IN  CallUpdate(articleId, << <<"status", newStatus>> >>)
            /\ UNCHANGED <<inFlight, notDb>>

\* POST /api/articles/:id/toggle-disable
ToggleDisable ==
    \E articleId \in CallIds :
        LET article == getArticleById(dbArticles, articleId)
        IN  /\ IF article = JNull
               THEN UNCHANGED <<dbArticles, dbCall, dbReturn, dbPc>>
               ELSE LET newStatus == IF article.status = "disabled"
                                     THEN "pending" ELSE "disabled"
                    IN  CallUpdate(articleId, << <<"status", newStatus>> >>)
            /\ UNCHANGED <<inFlight, notDb>>

\* POST /api/publish, with an articleId or, articleId being "", a slug
Publish ==
    \E articleId \in CallIds \cup {""}, slug \in {"slug-2", "no-such-slug"} :
        LET article == IF articleId # "" THEN getArticleById(dbArticles, articleId)
                       ELSE getArticleBySlug(dbArticles, slug)
        IN  /\ IF article = JNull
               THEN UNCHANGED <<dbArticles, dbCall, dbReturn, dbPc>>
               ELSE CallUpdate(article.id, << <<"status", "published">>,
                                              <<"publishedAt", Now>> >>)
            /\ UNCHANGED <<inFlight, notDb>>

\* POST /api/translate up to the await: the article is read and handed to
\* translateArticle
TranslateBegin ==
    \E articleId \in CallIds :
        /\ getArticleById(dbArticles, articleId) # JNull
        /\ articleId \notin inFlight
        /\ inFlight' = inFlight \cup {articleId}
        /\ UNCHANGED <<dbArticles, dbCall, dbReturn, dbPc, notDb>>

\* translateArticle after translate() resolved
TranslateDone ==
    \E id \in inFlight :
        /\ CallUpdate(id, << <<"translatedTitle", "Translated Title">>,
                             <<"translatedContent", "Translated content">>,
                             <<"translatedAt", Now>>,
                             <<"translationProvider", "claude-api">>,
                             <<"status", "translated">> >>)
        /\ inFlight' = inFlight \ {id}
        /\ UNCHANGED notDb

\* translateArticle after translate() rejected: the error is rethrown and
\* the route answers 500
TranslateFails ==
    \E id \in inFlight :
        /\ inFlight' = inFlight \ {id}
        /\ UNCHANGED <<dbArticles, dbCall, dbReturn, dbPc, notDb>>

\* The loop of POST /api/articles/bulk-disable over ids: the table, the last
\* call and the last return value after it
RECURSIVE BulkDisableLoop(_, _)
BulkDisableLoop(st, ids) ==
    IF ids = <<>> THEN st
    ELSE LET id == Head(ids)
             article == getArticleById(st.table, id)
             data == << <<"status", "disabled">> >>
         IN  IF article # JNull /\ article.status # "disabled"
             THEN BulkDisableLoop([table |-> updateArticle(st.table, id, data).table,
                                   call |-> [id |-> id, data |-> data],
                                   ret |-> updateArticle(st.table, id, data).ret,
                                   pc |-> "returned"], Tail(ids))
             ELSE BulkDisableLoop(st, Tail(ids))

BulkIds == {<<"a1">>, <<"a2", "a1">>, <<"a1", "non-existent", "a2">>}

\* POST /api/articles/bulk-disable
BulkDisable ==
    \E ids \in BulkIds :
        LET st == BulkDisableLoop([table |-> dbArticles, call |-> dbCall,
                                   ret |-> dbReturn, pc |-> dbPc], ids)
        IN  /\ dbArticles' = st.table
            /\ dbCall' = st.call
            /\ dbReturn' = st.ret
            /\ dbPc' = st.pc
            /\ UNCHANGED <<inFlight, notDb>>

NextAdmin ==
    \/ ToggleSave
    \/ ToggleDisable
    \/ Publish
    \/ TranslateBegin
    \/ TranslateDone
    \/ TranslateFails
    \/ BulkDisable

SpecAdmin == InitDb /\ [][NextAdmin]_vars

\* The place of a status in pending, saved, translated, published
Lifecycle == <<"pending", "saved", "translated", "published">>

Rank(status) == CHOOSE i \in DOMAIN Lifecycle : Lifecycle[i] = status

Forward(from, to) ==
    \/ to = from
    \/ to = "disabled"
    \/ from # "disabled" /\ Rank(to) > Rank(from)

\* C18: every change of status made by the admin operations goes forward
\* along pending, saved, translated, published or to disabled, and an
\* article that is published has been translated.
StatusLifecycle ==
    /\ [][\A id \in ArticleIds :
             Forward(dbArticles[id]["status"], dbArticles'[id]["status"])]_vars
    /\ [](\A id \in ArticleIds :
             (dbPc # "idle" /\ dbArticles[id]["status"] = "published")
                 => dbArticles[id]["translated_content"] # SqlNull)

----------------------------------------------------------------------------
(* scripts/translate.js: the retry loops of the providers *)

MAX_RETRIES == 3
INITIAL_RETRY_DELAY == 5000

MaxFailures == 4

\* An error is its status and its message, a sequence of words
Error(status, message) == [status |-> status, message |-> message]

\* message.includes(word)
Includes(message, word) == \E i \in DOMAIN message : message[i] = word

isRetryableError(error) ==
    LET message == error.message
        status == error.status
    IN  \/ status >= 520 /\ status <= 530
        \/ status >= 500 /\ status < 600
        \/ status = 429
        \/ Includes(message, "timeout") \/ Includes(message, "ETIMEDOUT")
        \/ Includes(message, "ECONNRESET")
        \/ Includes(message, "524") \/ Includes(message, "Server error")

\* The errors a request fails with
Errors ==
    { Error(503, <<"Service", "Unavailable">>),
      Error(429, <<"Too", "Many", "Requests">>),
      Error(400, <<"Bad", "Request">>),
      Error(0, <<"Request", "timeout">>),
      Error(0, <<"ENOTFOUND">>) }

UnknownProvider == Error(0, <<"Unknown", "translation", "provider">>)

Providers == {"claude-api", "openai", "claude-cli", "deepl"}

\* The providers whose loop retries whatever the error is
RetriesAnyError(p) == p = "claude-cli"

RECURSIVE SeqsUpTo(_, _)
SeqsUpTo(S, n) ==
    IF n = 0 THEN {<<>>}
    ELSE LET shorter == SeqsUpTo(S, n - 1)
         IN  shorter \cup {Append(q, e) : q \in shorter, e \in S}

\* translate(text, title, provider) against a provider whose first requests
\* fail with the errors of failures, and whose later requests succeed
InitTranslate ==
    /\ provider \in Providers
    /\ failures \in SeqsUpTo(Errors, MaxFailures)
    /\ attempt = 1 /\ calls = 0 /\ waits = <<>> /\ lastError = <<>>
    /\ tPc = "switch"
    /\ blocks = [t |-> "null", v |-> <<>>]
    /\ IdlePayloads /\ IdleHtml /\ IdleMarkdown /\ IdleArticles /\ IdleSingle
    /\ IdleDb /\ IdleMore

notTranslate == <<rscVars, blocks, htmlVars, mdVars, artVars, oneVars, dbVars, moreVars>>

\* switch (provider)
Dispatch ==
    /\ tPc = "switch"
    /\ IF provider \in {"claude-api", "openai", "claude-cli"}
       THEN tPc' = "call" /\ UNCHANGED lastError
       ELSE tPc' = "thrown" /\ lastError' = UnknownProvider
    /\ UNCHANGED <<provider, failures, attempt, calls, waits, notTranslate>>

\* The loop condition failed: throw lastError
LoopExit ==
    /\ tPc = "call" /\ ~(attempt <= MAX_RETRIES)
    /\ tPc' = "thrown"
    /\ UNCHANGED <<provider, failures, attempt, calls, waits, lastError, notTranslate>>

\* The request of this attempt succeeds: return
RequestSucceeds ==
    /\ tPc = "call" /\ attempt <= MAX_RETRIES
    /\ calls + 1 > Len(failures)
    /\ calls' = calls + 1
    /\ tPc' = "returned"
    /\ UNCHANGED <<provider, failures, attempt, waits, lastError, notTranslate>>

\* The request of this attempt fails: catch (error) { ... }
RequestFails ==
    /\ tPc = "call" /\ attempt <= MAX_RETRIES
    /\ calls + 1 <= Len(failures)
    /\ calls' = calls + 1
    /\ lastError' = failures[calls + 1]
    /\ IF RetriesAnyError(provider)
       THEN IF attempt < MAX_RETRIES
            THEN tPc' = "sleep" /\ UNCHANGED attempt
            ELSE tPc' = "call" /\ attempt' = attempt + 1
       ELSE IF attempt < MAX_RETRIES /\ isRetryableError(failures[calls + 1])
            THEN tPc' = "sleep" /\ UNCHANGED attempt
            ELSE tPc' = "thrown" /\ UNCHANGED attempt
    /\ UNCHANGED <<provider, failures, waits, notTranslate>>

\* await sleep(delay), then the next round of the loop
Sleep ==
    /\ tPc = "sleep"
    /\ LET delay == INITIAL_RETRY_DELAY * 2 ^ (attempt - 1)
       IN  waits' = Append(waits, delay)
    /\ attempt' = attempt + 1
    /\ tPc' = "call"
    /\ UNCHANGED <<provider, failures, calls, lastError, notTranslate>>

NextTranslate ==
    \/ Dispatch
    \/ LoopExit
    \/ RequestSucceeds
    \/ RequestFails
    \/ Sleep

SpecTranslate == InitTranslate /\ [][NextTranslate]_vars

\* C19: one translate() call makes at most 1 + 3 provider requests, and
\* when it rethrows after requests that all failed with a retryable error,
\* it has retried 3 times, after waits of 5 s, 10 s and 20 s, and the error
\* it throws is the last one.
RetriedThreeTimes ==
    /\ calls <= 1 + MAX_RETRIES
    /\ (/\ tPc = "thrown" /\ calls > 0
        /\ \A i \in 1..calls : isRetryableError(failures[i]))
           => /\ waits = <<5000, 10000, 20000>>
              /\ lastError = failures[calls]

----------------------------------------------------------------------------
(* scripts/db.js: the api_keys table *)

\* An API key is the sequence of its characters
Stars == <<"*", "*", "*", "*">>

\* key.substring(from, to), with from <= to <= key.length
substring(key, from, to) == SubSeq(key, from + 1, to)

maskApiKey(key) ==
    IF key = <<>> \/ Len(key) < 12 THEN Stars
    ELSE substring(key, 0, 4) \o Stars \o substring(key, Len(key) - 4, Len(key))

KeyProviders == {"claude-api", "openai"}

\* Keys of 0, 7, 11, 12 and 13 characters; the last two end alike
KeySamples ==
    { <<>>,
      <<"t", "e", "s", "t", "k", "e", "y">>,
      <<"s", "k", "-", "1", "2", "3", "4", "5", "6", "7", "8">>,
      <<"s", "k", "-", "a", "n", "t", "-", "A", "3", "4", "5", "6">>,
      <<"o", "p", "e", "n", "-", "a", "i", "-", "B", "3", "4", "5", "6">> }

\* The api_keys table without rows
NoKeys == [p \in {} |-> <<>>]

InitKeys ==
    /\ apiKeys = NoKeys /\ keysOut = <<>> /\ keyPc = "ready"
    /\ blocks = [t |-> "null", v |-> <<>>]
    /\ IdlePayloads /\ IdleHtml /\ IdleMarkdown /\ IdleArticles /\ IdleSingle
    /\ IdleDb /\ IdleTranslate /\ IdleSanity /\ IdleFetch /\ IdleChunks

notKeys == <<rscVars, blocks, htmlVars, mdVars, artVars, oneVars, dbVars, trVars, sbVars,
             fwVars, chVars>>

\* setApiKey(provider, apiKey, enabled): insert, or update on conflict
SetApiKey ==
    \E p \in KeyProviders, key \in KeySamples, enabled \in BOOLEAN :
        /\ apiKeys' = [q \in DOMAIN apiKeys \cup {p} |->
                          IF q = p THEN [api_key |-> key, enabled |-> enabled]
                          ELSE apiKeys[q]]
        /\ UNCHANGED <<keysOut, keyPc, notKeys>>

\* deleteApiKey(provider)
DeleteApiKey ==
    \E p \in KeyProviders :
        /\ apiKeys' = [q \in DOMAIN apiKeys \ {p} |-> apiKeys[q]]
        /\ UNCHANGED <<keysOut, keyPc, notKeys>>

\* getAllApiKeys(includeFull)
GetAllApiKeys ==
    \E includeFull \in BOOLEAN :
        /\ keysOut' = [p \in DOMAIN apiKeys |->
                          [full |-> includeFull,
                           apiKey |-> IF includeFull THEN apiKeys[p].api_key
                                      ELSE maskApiKey(apiKeys[p].api_key),
                           enabled |-> apiKeys[p].enabled]]
        /\ keyPc' = "listed"
        /\ UNCHANGED <<apiKeys, notKeys>>

NextKeys == SetApiKey \/ DeleteApiKey \/ GetAllApiKeys

SpecKeys == InitKeys /\ [][NextKeys]_vars

\* The last 4 characters of a key, the whole key if it has fewer
LastFour(key) ==
    IF Len(key) <= 4 THEN key ELSE SubSeq(key, Len(key) - 3, Len(key))

\* C21: getAllApiKeys(false) returns every stored key as **** followed by
\* its last 4 characters, so that the masked value holds none of the key's
\* leading characters.
MaskShowsLastFour ==
    [][(apiKeys' = apiKeys /\ keyPc' = "listed") =>
          \A p \in DOMAIN keysOut' :
              ~keysOut'[p].full =>
                  keysOut'[p].apiKey = Stars \o LastFour(apiKeys[p].api_key)]_vars

----------------------------------------------------------------------------
(* extractArticlesFromJson: the fragments it delimits *)

\* Where payload i starts in the combined text
RECURSIVE PayloadStart(_)
PayloadStart(i) ==
    IF i = 1 THEN 1 ELSE PayloadStart(i - 1) + Len(articlePayloads[i - 1]) + 1

\* A payload that is one valid JSON object or array
WholeDocument(text) ==
    /\ text # <<>> /\ text[1] \in {"[", "{"}
    /\ JsonParse(text).ok

\* C22: the bracket matching is string-aware: once the loop over the starts
\* is over, every payload that is a valid JSON object or array, brackets in
\* its string values or not, was delimited at its closing bracket and
\* parsed, so that its range is one of the parsed ranges.
StringAwareMatching ==
    aPc \in {"pattern1", "pattern2", "arrays", "done"} =>
        \A i \in 1..Len(articlePayloads) :
            WholeDocument(articlePayloads[i]) =>
                \E k \in 1..Len(parsedRanges) :
                    parsedRanges[k] = <<PayloadStart(i),
                                        PayloadStart(i) + Len(articlePayloads[i])>>

----------------------------------------------------------------------------
(* extractSingleArticleFromRSC: where the returned fields come from *)

\* The types whose discriminator occurs in the data with a publishedOn
\* field after it
AnchoredTypes ==
    { k \in DOMAIN ARTICLE_TYPES :
        /\ IndexOf(pageData, typeMarker(ARTICLE_TYPES[k]), 1) # 0
        /\ MatchField(AfterType(pageData, ARTICLE_TYPES[k]), "publishedOn").ok }

\* What the window around such an anchor holds: the first summary and the
\* first plausible title in it
WindowFields(k) == Anchored(NoResult, AfterType(pageData, ARTICLE_TYPES[k]))

\* C23: when a publishedOn anchor is found after a known discriminator, the
\* title and the summary returned are those of the window around an anchor
\* (500 characters before it to 5000 after it): a title or summary field
\* outside the window is never returned.
OnlyFromWindow ==
    (sPc = "done" /\ AnchoredTypes # {}) =>
        /\ Truthy(result.title) =>
              \E k \in AnchoredTypes : WindowFields(k).title = result.title
        /\ Truthy(result.summary) =>
              \E k \in AnchoredTypes : WindowFields(k).summary = result.summary


\* The values the fields of one discriminator occurrence can give: those of
\* the page's own article, with the titles and dates inside its body, and
\* those of the article that follows it
OwnValues(l) ==
    [title |-> {TitleValue(l.title), Caption},
     summary |-> {ArticleSummary},
     publishedOn |-> {ArticleDate, OtherDate}]

FollowingValues ==
    [title |-> {OtherTitle}, summary |-> {}, publishedOn |-> {OtherDate}]

\* Every field of res that is set has one of the values of occurrence
AllFrom(res, occurrence) ==
    \A f \in {"title", "summary", "publishedOn"} :
        Truthy(res[f]) => res[f].v \in occurrence[f]

\* C27: the three fields returned describe one article: title, summary and
\* publishedOn all come from the same discriminator occurrence, or from the
\* same parsed object.
FieldsOfOneArticle ==
    sPc = "done" =>
        AllFrom(result, OwnValues(layout)) \/ AllFrom(result, FollowingValues)

----------------------------------------------------------------------------
(* parseAnthropicArticles: the order of the strategies *)

InJsonWalk(pc) == pc \in {"json", "walk"}

\* C24: the two patterns run only when the JSON walk produced no stub, and
\* the array strategy only when the walk and the patterns produced none;
\* when the walk yields a stub, the list returned is the list of the walk.
StrategyOrder ==
    [][/\ (InJsonWalk(aPc) /\ ~InJsonWalk(aPc')) =>
             /\ articles' = articles
             /\ aPc' = IF articles = <<>> THEN "pattern1" ELSE "done"
       /\ (aPc # "pattern2" /\ aPc' = "pattern2") =>
             (aPc = "pattern1" /\ articles' = articles)
       /\ (aPc # "arrays" /\ aPc' = "arrays") =>
             (aPc = "pattern2" /\ articles = <<>> /\ articles' = articles)
       /\ aPc = "done" => (aPc' = "done" /\ articles' = articles)
      ]_vars

\* The walk found the two articles of an object; the cut object of the
\* second payload, with title G and slug s, is no stub
WalkStubsReturned ==
    /\ aPc = "done"
    /\ articlePayloads = <<JsonText(Documents[3]), Fragments[1]>>
    /\ Len(articles) = 2
    /\ seenSlugs = {Lit("p"), Lit("q")}
    /\ [k \in 1..2 |-> articles[k].title] = <<Lit("D"), Lit("E")>>

----------------------------------------------------------------------------
(* walkJsonForArticles: the order of the stubs *)

\* Every payload is a JSON document that was parsed whole
AllParsed ==
    \A i \in 1..Len(articlePayloads) :
        /\ WholeDocument(articlePayloads[i])
        /\ \E k \in 1..Len(parsedRanges) :
              parsedRanges[k] = <<PayloadStart(i),
                                  PayloadStart(i) + Len(articlePayloads[i])>>

\* The objects of objs whose slug is not empty and not the slug of an
\* earlier one, in order
RECURSIVE FirstOccurrences(_, _)
FirstOccurrences(objs, seen) ==
    IF objs = <<>> THEN <<>>
    ELSE LET slug == EmbeddedSlug(Head(objs))
         IN  IF slug = EmptyString \/ slug \in seen
             THEN FirstOccurrences(Tail(objs), seen)
             ELSE <<Head(objs)>> \o FirstOccurrences(Tail(objs), seen \cup {slug})

\* C25: the walk checks every object at every depth, depth first, and goes
\* on into the children of an object that matched: when the payloads were
\* parsed whole, the stubs are those of the article-shaped objects in the
\* order of the text, parents before the objects inside them, one for each
\* slug.
WalkReachesEveryDepth ==
    (aPc = "done" /\ AllParsed /\ FirstOccurrences(embedded, {}) # <<>>) =>
        LET expected == FirstOccurrences(embedded, {})
        IN  /\ Len(articles) = Len(expected)
            /\ \A k \in 1..Len(expected) :
                  /\ articles[k].title = Get(expected[k], "title")
                  /\ articles[k].slug = EmbeddedSlug(expected[k])

\* The article E inside the article D was emitted after D
NestedArticleEmitted ==
    /\ aPc = "done" /\ AllParsed
    /\ articlePayloads = <<JsonText(Documents[3])>>
    /\ [k \in 1..Len(articles) |-> articles[k].title] = <<Lit("D"), Lit("E")>>

----------------------------------------------------------------------------
(* extractSanityBlocks (server.js 745-786) *)

\* '"body":['
bodyKey == <<DQ, "body", DQ, ":", "[">>

\* A depth count that takes no account of strings
RECURSIVE ArrayEndNaive(_, _, _, _, _)
ArrayEndNaive(data, i, depth, inString, escape) ==
    IF i > Len(data) THEN 0
    ELSE IF data[i] = "]" /\ depth = 1 THEN i
    ELSE ArrayEndNaive(data, i + 1,
                       CASE data[i] = "[" -> depth + 1
                         [] data[i] = "]" -> depth - 1
                         [] OTHER -> depth,
                       FALSE, FALSE)

\* The bracket matcher (server.js 760-769) from position i on: the position
\* of the bracket that closes the array, or 0
RECURSIVE ArrayEnd(_, _, _, _, _)
ArrayEnd(data, i, depth, inString, escape) ==
    IF i > Len(data) THEN 0
    ELSE LET ch == data[i]
             plain == ~escape /\ ch # BS /\ ch # DQ /\ ~inString
         IN  IF plain /\ ch = "]" /\ depth = 1 THEN i
             ELSE ArrayEnd(data, i + 1,
                           CASE plain /\ ch = "[" -> depth + 1
                             [] plain /\ ch = "]" -> depth - 1
                             [] OTHER -> depth,
                           IF ~escape /\ ch = DQ THEN ~inString ELSE inString,
                           ~escape /\ ch = BS)

\* bodyStr.replace(/\\\n/g, '\\n').replace(/\\\t/g, '\\t')
FixEscapes(bodyStr) ==
    ReplacePair(ReplacePair(bodyStr, BS, NL, <<BS, "n">>), BS, TAB, <<BS, "t">>)

\* data.indexOf('[', bodyIdx)
ArrayStart(data) == IndexOf(data, <<"[">>, IndexOf(data, bodyKey, 1))

\* The text handed to JSON.parse
BodyStr(data) ==
    FixEscapes(SubSeq(data, ArrayStart(data),
                      ArrayEnd(data, ArrayStart(data), 0, FALSE, FALSE)))

\* The body arrays the pages are written with, as the text and the array
\* the text stands for, if it stands for one
Written(array) == [text |-> JsonText(array), value |-> <<array>>]

CodeBlock(code) == JObj(<<Prop("_type", Lit("code")), Prop("code", JStr(code))>>)

BodySamples ==
    << \* a closing bracket in a string
       Written(JArr(<<CodeBlock(<<"a", "]", "b">>)>>)),
       \* an escaped quote and a bracket behind it
       Written(JArr(<<CodeBlock(<<"x", DQ, "]", "y">>)>>)),
       \* a backslash at the end of a string, and a second element
       Written(JArr(<<CodeBlock(<<"p", BS>>), JStr(<<"[">>)>>)),
       \* a backslash before a literal newline, and one before a literal tab
       [text |-> ReplacePair(JsonText(JArr(<<CodeBlock(<<"l1", NL, "l2">>)>>)),
                             BS, "n", <<BS, NL>>),
        value |-> <<JArr(<<CodeBlock(<<"l1", NL, "l2">>)>>)>>],
       [text |-> ReplacePair(JsonText(JArr(<<CodeBlock(<<"c1", TAB, "c2">>)>>)),
                             BS, "t", <<BS, TAB>>),
        value |-> <<JArr(<<CodeBlock(<<"c1", TAB, "c2">>)>>)>>],
       \* a first element without _type
       Written(JArr(<<JObj(<<Prop("x", Lit("1"))>>), JStr(<<"]">>)>>)),
       \* a first element that is null, and one that is an array
       Written(JArr(<<JNull, JObj(<<Prop("_type", Lit("code"))>>)>>)),
       Written(JArr(<<JArr(<<JObj(<<Prop("_type", Lit("code"))>>)>>), JStr(<<"]">>)>>)),
       \* the empty array
       Written(JArr(<<>>)),
       \* a literal newline in a string, which the parser rejects
       [text |-> <<"[", "{", DQ, "_type", DQ, ":", DQ, "l1", NL, "l2", DQ, "}", "]">>,
        value |-> <<>>],
       \* an array that is not closed
       [text |-> <<"[", "{", DQ, "_type", DQ, ":", DQ, "block", DQ, "}">>,
        value |-> <<>>] >>

\* The longest page
MaxData == 50

BodyKeys == {"body", "content"}
Prefixes == { <<>>, <<DQ, "title", DQ, ":", DQ, "t", "[", DQ, ",">> }
Suffixes == { <<>>,
              <<",", DQ, "slug", DQ, ":", DQ, "]", DQ>>,
              <<",", DQ, "tags", DQ, ":", "[", DQ, "q", DQ, "]">> }

InitSanity ==
    /\ \E key \in BodyKeys, pre \in Prefixes, k \in DOMAIN BodySamples,
          post \in Suffixes :
          /\ sbData = pre \o <<DQ, key, DQ, ":">> \o BodySamples[k].text \o post
          /\ sbBody = IF key = "body" THEN BodySamples[k].value ELSE <<>>
          /\ Len(sbData) <= MaxData
    /\ sbBlocks = <<>> /\ sbPc = "find"
    /\ blocks = [t |-> "null", v |-> <<>>]
    /\ IdlePayloads /\ IdleHtml /\ IdleMarkdown /\ IdleArticles /\ IdleSingle
    /\ IdleDb /\ IdleTranslate /\ IdleKeys /\ IdleFetch /\ IdleChunks

notSanity == <<rscVars, blocks, htmlVars, mdVars, artVars, oneVars, dbVars, trVars,
               keyVars, fwVars, chVars>>

\* if (bodyIdx === -1) return blocks
SanityNoBody ==
    /\ sbPc = "find"
    /\ IndexOf(sbData, bodyKey, 1) = 0
    /\ sbPc' = "done"
    /\ UNCHANGED <<sbData, sbBody, sbBlocks, notSanity>>

\* if (end === -1) return blocks
SanityNoEnd ==
    /\ sbPc = "find"
    /\ IndexOf(sbData, bodyKey, 1) # 0
    /\ ArrayEnd(sbData, ArrayStart(sbData), 0, FALSE, FALSE) = 0
    /\ sbPc' = "done"
    /\ UNCHANGED <<sbData, sbBody, sbBlocks, notSanity>>

\* JSON.parse throws, or parsed[0]._type does on a null: catch (e) { ... }
SanityRejected ==
    /\ sbPc = "find"
    /\ IndexOf(sbData, bodyKey, 1) # 0
    /\ ArrayEnd(sbData, ArrayStart(sbData), 0, FALSE, FALSE) # 0
    /\ LET parsed == JsonParse(BodyStr(sbData))
       IN  \/ ~parsed.ok
           \/ parsed.ok /\ Len(parsed.v.v) > 0 /\ IsNullish(parsed.v.v[1])
    /\ sbPc' = "done"
    /\ UNCHANGED <<sbData, sbBody, sbBlocks, notSanity>>

\* The array is empty or its first element has no _type
SanityNotBlocks ==
    /\ sbPc = "find"
    /\ IndexOf(sbData, bodyKey, 1) # 0
    /\ ArrayEnd(sbData, ArrayStart(sbData), 0, FALSE, FALSE) # 0
    /\ LET parsed == JsonParse(BodyStr(sbData))
       IN  /\ parsed.ok
           /\ \/ Len(parsed.v.v) = 0
              \/ /\ Len(parsed.v.v) > 0 /\ ~IsNullish(parsed.v.v[1])
                 /\ ~Truthy(Get(parsed.v.v[1], "_type"))
    /\ sbPc' = "done"
    /\ UNCHANGED <<sbData, sbBody, sbBlocks, notSanity>>

\* blocks.push(...parsed)
SanityBlocks ==
    /\ sbPc = "find"
    /\ IndexOf(sbData, bodyKey, 1) # 0
    /\ ArrayEnd(sbData, ArrayStart(sbData), 0, FALSE, FALSE) # 0
    /\ LET parsed == JsonParse(BodyStr(sbData))
       IN  /\ parsed.ok
           /\ Len(parsed.v.v) > 0 /\ ~IsNullish(parsed.v.v[1])
           /\ Truthy(Get(parsed.v.v[1], "_type"))
           /\ sbBlocks' = parsed.v.v
    /\ sbPc' = "done"
    /\ UNCHANGED <<sbData, sbBody, notSanity>>

NextSanity ==
    \/ SanityNoBody
    \/ SanityNoEnd
    \/ SanityRejected
    \/ SanityNotBlocks
    \/ SanityBlocks

SpecSanity == InitSanity /\ [][NextSanity]_vars

\* The elements of the array that follows the body key
BodyElements == IF sbBody = <<>> THEN <<>> ELSE sbBody[1].v

\* C26, as stated: the elements of the array that follows the body key are
\* returned whenever the array is found and parses, and the empty list
\* otherwise.
BodyElementsReturned ==
    sbPc = "done" => sbBlocks = BodyElements

\* C26, amended: the elements of the array that follows the first "body":[
\* are returned when the array parses, brackets and escaped quotes in its
\* strings and backslashes before a literal newline or tab notwithstanding,
\* and its first element has a _type; the empty list is returned when there
\* is no such array, when it does not parse, when it is empty and when its
\* first element has no _type.
SanityBlocksReturned ==
    sbPc = "done" =>
        sbBlocks = IF /\ BodyElements # <<>>
                      /\ ~IsNullish(BodyElements[1])
                      /\ Truthy(Get(BodyElements[1], "_type"))
                   THEN BodyElements ELSE <<>>

\* The array with an escaped quote and a bracket in a string, between a
\* title and a slug that hold brackets too, came back whole
QuotedBracketKept ==
    /\ sbPc = "done"
    /\ sbBody = BodySamples[2].value
    /\ Len(sbData) > Len(BodySamples[2].text) + 12
    /\ Len(sbData) <= MaxData
    /\ sbBlocks = <<CodeBlock(<<"x", DQ, "]", "y">>)>>

----------------------------------------------------------------------------
(* fetchWebFeed (server.js 450-543) *)

FETCH_TIMEOUT == 15000

\* setTimeout(callback, ms) and clearTimeout(timeout): a timer that was
\* cleared does not fire, and clearing one that fired does nothing
setTimeout(ms) == [state |-> "armed", ms |-> ms]

clearTimeoutForgotten(timeout) == timeout

clearTimeout(timeout) ==
    IF timeout.state = "armed" THEN [timeout EXCEPT !.state = "cleared"] ELSE timeout

\* How a block of statements completes, and the promise of an async
\* function whose body completed so
Return(value) == [type |-> "return", value |-> value]
Throw(error) == [type |-> "throw", value |-> error]

Settle(completion) ==
    IF completion.type = "throw"
    THEN [state |-> "rejected", value |-> completion.value]
    ELSE [state |-> "fulfilled", value |-> completion.value]

\* catch (error) { ...; return { articles: [], error: error.message } }
CatchFetchFailed(completion) ==
    IF completion.type = "throw"
    THEN Return([articles |-> <<>>, error |-> completion.value.message])
    ELSE completion

\* A few of the FILTER_KEYWORDS of fetch-rss.js, as lists of words
FILTER_KEYWORDS == << <<"announcing">>, <<"now", " ", "available">>, <<"hiring">> >>

\* String.prototype.toLowerCase, word by word
LowerWord(w) ==
    CASE w = "Announcing" -> "announcing"
      [] w = "Hiring" -> "hiring"
      [] w = "Now" -> "now"
      [] OTHER -> w

toLowerCase(text) == [k \in DOMAIN text |-> LowerWord(text[k])]

\* The for loop over FILTER_KEYWORDS
isFiltered(article) ==
    LET titleLower == toLowerCase(article.title)
        contentLower == Substring(toLowerCase(article.content), 0, 500)
        combined == titleLower \o <<" ">> \o contentLower
    IN  \E k \in DOMAIN FILTER_KEYWORDS :
            IndexOf(combined, toLowerCase(FILTER_KEYWORDS[k]), 1) # 0

\* The article the loop builds of a raw one; its id, slug and dates, which
\* hold the time and a random number, are left out
FeedArticle(feed, raw) ==
    [title |-> IF raw.title = <<>> THEN <<"Untitled">> ELSE raw.title,
     originalUrl |-> raw.url,
     source |-> feed.name,
     sourceUrl |-> feed.sourceUrl,
     description |-> raw.summary,
     content |-> raw.summary,
     status |-> "pending"]

RECURSIVE Kept(_, _)
Kept(feed, rawArticles) ==
    IF rawArticles = <<>> THEN <<>>
    ELSE LET article == FeedArticle(feed, Head(rawArticles))
         IN  (IF isFiltered(article) THEN <<>> ELSE <<article>>)
                 \o Kept(feed, Tail(rawArticles))

\* The pages the server may send, by what extractRSCPayloads and
\* parseAnthropicArticles make of them
Raw(title, slug, summary) ==
    [title |-> title, url |-> <<"/news/", slug>>, summary |-> summary]

Pages ==
    { [payloads |-> 0, rawArticles |-> <<>>],
      [payloads |-> 1, rawArticles |-> <<>>],
      [payloads |-> 1,
       rawArticles |-> <<Raw(<<"Claude", " ", "notes">>, "notes", <<"On", " ", "agents">>)>>],
      [payloads |-> 2,
       rawArticles |-> <<Raw(<<"Claude", " ", "notes">>, "notes", <<>>),
                         Raw(<<"Hiring", " ", "engineers">>, "jobs", <<>>),
                         Raw(<<>>, "untitled", <<"Now", " ", "public">>)>>],
      [payloads |-> 1,
       rawArticles |-> <<Raw(<<"Claude">>, "claude", <<"Now", " ", "available">>),
                         Raw(<<"Announcing", " ", "Claude">>, "new", <<>>)>>] }

\* What the server and the network do with the request
NetworkError ==
    [kind |-> "network", status |-> 0, statusText |-> <<>>, bodyFails |-> FALSE,
     page |-> [payloads |-> 0, rawArticles |-> <<>>]]

Response(status, statusText, bodyFails, page) ==
    [kind |-> "response", status |-> status, statusText |-> statusText,
     bodyFails |-> bodyFails, page |-> page]

Servers ==
    {NetworkError,
     Response(404, <<"Not", " ", "Found">>, FALSE, [payloads |-> 0, rawArticles |-> <<>>]),
     Response(503, <<"Service", " ", "Unavailable">>, FALSE,
              [payloads |-> 0, rawArticles |-> <<>>]),
     Response(200, <<"OK">>, TRUE, [payloads |-> 0, rawArticles |-> <<>>])}
        \cup { Response(200, <<"OK">>, FALSE, page) : page \in Pages }

WebFeeds ==
    { [name |-> <<"Anthropic", " ", "News">>, url |-> <<"https://www.anthropic.com/news">>,
       sourceUrl |-> <<"https://www.anthropic.com">>],
      [name |-> <<"Anthropic", " ", "Engineering">>,
       url |-> <<"https://www.anthropic.com/engineering">>,
       sourceUrl |-> <<"https://www.anthropic.com">>] }

\* response.ok
ResponseOk(response) == response.status >= 200 /\ response.status <= 299

AbortError == Error(0, <<"This operation was aborted">>)
FetchFailed == Error(0, <<"fetch failed">>)
HttpError(response) ==
    Error(0, <<"HTTP ", ToString(response.status), ": ">> \o response.statusText)

InitFetch ==
    /\ fwFeed \in WebFeeds
    /\ fwServer \in Servers
    /\ fwPc = "call"
    /\ fwTimer = <<>> /\ fwAborted = FALSE /\ fwFiredAt = "never" /\ fwPromise = <<>>
    /\ blocks = [t |-> "null", v |-> <<>>]
    /\ IdlePayloads /\ IdleHtml /\ IdleMarkdown /\ IdleArticles /\ IdleSingle
    /\ IdleDb /\ IdleTranslate /\ IdleKeys /\ IdleSanity /\ IdleChunks

notFetch == <<rscVars, blocks, htmlVars, mdVars, artVars, oneVars, dbVars, trVars,
              keyVars, sbVars, chVars>>

\* The function runs up to its first await: the timer is set and the
\* request is sent
FetchCall ==
    /\ fwPc = "call"
    /\ fwTimer' = setTimeout(FETCH_TIMEOUT)
    /\ fwPc' = "fetch"
    /\ UNCHANGED <<fwFeed, fwServer, fwAborted, fwFiredAt, fwPromise, notFetch>>

\* () => controller.abort(): the event loop runs the callback of a timer
\* that is armed while the function awaits, or after it returned
TimerFires ==
    /\ fwTimer # <<>> /\ fwTimer.state = "armed"
    /\ fwPc \in {"fetch", "text", "done"}
    /\ fwTimer' = [fwTimer EXCEPT !.state = "fired"]
    /\ fwAborted' = TRUE
    /\ fwFiredAt' = fwPc
    /\ UNCHANGED <<fwFeed, fwServer, fwPc, fwPromise, notFetch>>

\* The inner try block threw: finally, then the catch of the outer try
Fails(error) ==
    /\ fwTimer' = clearTimeout(fwTimer)
    /\ fwPromise' = Settle(CatchFetchFailed(Throw(error)))
    /\ fwPc' = "done"
    /\ UNCHANGED <<fwFeed, fwServer, fwAborted, fwFiredAt, notFetch>>

\* await fetch(...) throws: the signal was aborted, or the network failed
FetchRejects ==
    /\ fwPc = "fetch"
    /\ fwAborted \/ fwServer.kind = "network"
    /\ Fails(IF fwAborted THEN AbortError ELSE FetchFailed)

\* if (!response.ok) throw new Error(...)
ResponseNotOk ==
    /\ fwPc = "fetch"
    /\ ~fwAborted /\ fwServer.kind = "response" /\ ~ResponseOk(fwServer)
    /\ Fails(HttpError(fwServer))

\* html = await response.text() is begun
ResponseArrives ==
    /\ fwPc = "fetch"
    /\ ~fwAborted /\ fwServer.kind = "response" /\ ResponseOk(fwServer)
    /\ fwPc' = "text"
    /\ UNCHANGED <<fwFeed, fwServer, fwTimer, fwAborted, fwFiredAt, fwPromise, notFetch>>

\* await response.text() throws: the signal was aborted, or the body failed
TextRejects ==
    /\ fwPc = "text"
    /\ fwAborted \/ fwServer.bodyFails
    /\ Fails(IF fwAborted THEN AbortError ELSE FetchFailed)

\* if (payloads.length === 0) return { articles: [], error: ... }
NoPayloads ==
    /\ fwPc = "text"
    /\ ~fwAborted /\ ~fwServer.bodyFails
    /\ fwServer.page.payloads = 0
    /\ fwTimer' = clearTimeout(fwTimer)
    /\ fwPromise' = Settle(CatchFetchFailed(Return(
                        [articles |-> <<>>,
                         error |-> <<"No RSC payloads found on page">>])))
    /\ fwPc' = "done"
    /\ UNCHANGED <<fwFeed, fwServer, fwAborted, fwFiredAt, notFetch>>

\* return { articles, error: null }
ArticlesReturned ==
    /\ fwPc = "text"
    /\ ~fwAborted /\ ~fwServer.bodyFails
    /\ fwServer.page.payloads # 0
    /\ fwTimer' = clearTimeout(fwTimer)
    /\ fwPromise' = Settle(CatchFetchFailed(Return(
                        [articles |-> Kept(fwFeed, fwServer.page.rawArticles),
                         error |-> JNull])))
    /\ fwPc' = "done"
    /\ UNCHANGED <<fwFeed, fwServer, fwAborted, fwFiredAt, notFetch>>

NextFetch ==
    \/ FetchCall
    \/ TimerFires
    \/ FetchRejects
    \/ ResponseNotOk
    \/ ResponseArrives
    \/ TextRejects
    \/ NoPayloads
    \/ ArticlesReturned

SpecFetch == InitFetch /\ [][NextFetch]_vars

\* C28: whatever the request comes to, fetchWebFeed goes on until its
\* promise is fulfilled, never rejected, with an object of articles and
\* error in which articles is empty whenever error is not null; once the
\* function is past its awaits the timer is no longer armed, and it has only
\* ever fired while the function was awaiting the response or its text.
FetchAlwaysResolves ==
    /\ fwPc # "done" => fwPromise = <<>> /\ ENABLED NextFetch
    /\ fwPc = "done" =>
          /\ fwPromise.state = "fulfilled"
          /\ DOMAIN fwPromise.value = {"articles", "error"}
          /\ fwPromise.value.error # JNull => fwPromise.value.articles = <<>>
          /\ fwTimer.state \in {"cleared", "fired"}
    /\ fwFiredAt \in {"never", "fetch", "text"}
    /\ fwAborted <=> fwFiredAt # "never"

\* The timer fired while the text of a page with articles was awaited: the
\* promise is fulfilled with the abort as its error and no articles
AbortedWhileReading ==
    /\ fwPc = "done"
    /\ fwServer.page.rawArticles # <<>>
    /\ fwFiredAt = "text"
    /\ fwTimer = [state |-> "fired", ms |-> FETCH_TIMEOUT]
    /\ fwPromise = [state |-> "fulfilled",
                    value |-> [articles |-> <<>>, error |-> AbortError.message]]

----------------------------------------------------------------------------
(* findSplitPoint and the chunks of translateArticle (batch-translate.js)   *)
(* A content is written as its runs: Run(ch, n) is the character ch         *)
(* repeated n times, and no two neighbouring runs have the same character.  *)
(* Positions count characters from 0, as the indexes of a string do.        *)

MAX_CHUNK == 18000

Run(ch, n) == [ch |-> ch, n |-> n]

\* The position of the first character of run k; that of the end for k past the last
RECURSIVE StartOf(_, _)
StartOf(s, k) == IF k <= 1 THEN 0 ELSE StartOf(s, k - 1) + s[k - 1].n

\* content.length
Length(s) == StartOf(s, Len(s) + 1)

\* content[i]; "" past the end
charAt(s, i) ==
    IF i < 0 \/ i >= Length(s) THEN ""
    ELSE s[CHOOSE k \in DOMAIN s : StartOf(s, k) <= i /\ i < StartOf(s, k + 1)].ch

\* a + b
Concat(a, b) ==
    IF a = <<>> THEN b
    ELSE IF b = <<>> THEN a
    ELSE IF a[Len(a)].ch = b[1].ch
    THEN SubSeq(a, 1, Len(a) - 1) \o <<Run(b[1].ch, a[Len(a)].n + b[1].n)>> \o Tail(b)
    ELSE a \o b

\* The number of runs of s that end at position k or before it
WholeRuns(s, k) == Cardinality({ j \in DOMAIN s : StartOf(s, j + 1) <= k })

\* s.substring(0, k)
SubstringTo(s, k) ==
    LET m == WholeRuns(s, k)
    IN  SubSeq(s, 1, m) \o
            (IF m < Len(s) /\ k > StartOf(s, m + 1)
             THEN <<Run(s[m + 1].ch, k - StartOf(s, m + 1))>> ELSE <<>>)

\* s.substring(k)
SubstringFrom(s, k) ==
    LET m == WholeRuns(s, k)
    IN  IF k <= 0 THEN s
        ELSE IF m >= Len(s) THEN <<>>
        ELSE <<Run(s[m + 1].ch, StartOf(s, m + 2) - k)>> \o SubSeq(s, m + 2, Len(s))

\* The positions of the character ch in s
PositionsOf(s, ch) ==
    UNION { StartOf(s, k)..(StartOf(s, k + 1) - 1) :
              k \in { j \in DOMAIN s : s[j].ch = ch } }

Abs(x) == IF x < 0 THEN 0 - x ELSE x

\* The indexes at which /\n#{2,3} /g matches
HeadingMatches(content) ==
    { i \in PositionsOf(content, NL) :
        /\ charAt(content, i + 1) = "#"
        /\ charAt(content, i + 2) = "#"
        /\ \/ charAt(content, i + 3) = " "
           \/ charAt(content, i + 3) = "#" /\ charAt(content, i + 4) = " " }

\* content.lastIndexOf('\n\n', fromIndex)
lastIndexOf(content, fromIndex) ==
    LET found == { i \in PositionsOf(content, NL) :
                     i <= fromIndex /\ charAt(content, i + 1) = NL }
    IN  IF found = {} THEN -1 ELSE CHOOSE i \in found : \A j \in found : j <= i

\* The match of those in H nearest to targetPos, the first of two that are
\* as near
Nearest(H, targetPos) ==
    Min({ h \in H : \A g \in H : Abs(h - targetPos) <= Abs(g - targetPos) })

\* The while loop over the matches (batch-translate.js 53-57): exec finds
\* the matches in ascending order and best is replaced only by a match that
\* is nearer than it, so that the loop ends with the first of the nearest
\* matches if that one is nearer than the best it began with, and with the
\* best it began with otherwise
HeadingLoop(matches, best, targetPos) ==
    LET nearer == { h \in matches : Abs(h - targetPos) < Abs(best - targetPos) }
    IN  IF nearer = {} THEN best ELSE Nearest(nearer, targetPos)

\* The heading nearest to targetPos
NearestHeading(content, targetPos) == Nearest(HeadingMatches(content), targetPos)

\* The paragraph break or targetPos (batch-translate.js 60-61)
ParagraphOr(content, targetPos) ==
    LET para == lastIndexOf(content, targetPos)
    IN  IF 2 * para > targetPos THEN para ELSE targetPos

\* A split at the nearest heading whenever there is a heading
findSplitPointNearest(content, targetPos) ==
    IF HeadingMatches(content) # {} THEN NearestHeading(content, targetPos)
    ELSE ParagraphOr(content, targetPos)

findSplitPoint(content, targetPos) ==
    LET best == HeadingLoop(HeadingMatches(content), targetPos, targetPos)
    IN  IF best = targetPos THEN ParagraphOr(content, targetPos) ELSE best

\* The contents: three texts, the first with or without a heading before
\* it, the other two after a separator
Heading2 == <<Run(NL, 1), Run("#", 2), Run(" ", 1)>>
Heading3 == <<Run(NL, 1), Run("#", 3), Run(" ", 1)>>
ParagraphBreak == <<Run(NL, 2)>>

Text(n) == <<Run("a", n)>>

RECURSIVE ConcatAll(_)
ConcatAll(texts) ==
    IF texts = <<>> THEN <<>> ELSE Concat(Head(texts), ConcatAll(Tail(texts)))

Contents ==
    { ConcatAll(<<lead, Text(n1), sep2, Text(n2), sep3, Text(n3)>>) :
        lead \in {<<>>, Heading3},
        n1 \in {100, 9001, 17996, 18003},
        sep2 \in {<<>>, ParagraphBreak, Heading2, Heading3},
        n2 \in {8998, 18003},
        sep3 \in {ParagraphBreak, Heading2},
        n3 \in {100, 18003} }

InitChunks ==
    /\ chContent \in Contents
    /\ Length(chContent) >= 100
    /\ chRemaining = <<>> /\ chChunks = <<>> /\ chPc = "start"
    /\ blocks = [t |-> "null", v |-> <<>>]
    /\ IdlePayloads /\ IdleHtml /\ IdleMarkdown /\ IdleArticles /\ IdleSingle
    /\ IdleDb /\ IdleTranslate /\ IdleKeys /\ IdleSanity /\ IdleFetch

notChunks == <<rscVars, blocks, htmlVars, mdVars, artVars, oneVars, dbVars, trVars,
               keyVars, sbVars, fwVars>>

\* if (content.length <= MAX_CHUNK): the content is translated in one piece
SingleChunk ==
    /\ chPc = "start"
    /\ Length(chContent) <= MAX_CHUNK
    /\ chChunks' = <<chContent>>
    /\ chPc' = "done"
    /\ UNCHANGED <<chContent, chRemaining, notChunks>>

\* else { const chunks = []; let remaining = content; ...
SplitBegin ==
    /\ chPc = "start"
    /\ Length(chContent) > MAX_CHUNK
    /\ chRemaining' = chContent
    /\ chPc' = "while"
    /\ UNCHANGED <<chContent, chChunks, notChunks>>

\* One turn of while (remaining.length > MAX_CHUNK)
SplitChunk ==
    /\ chPc = "while"
    /\ Length(chRemaining) > MAX_CHUNK
    /\ LET split == findSplitPoint(chRemaining, MAX_CHUNK)
       IN  /\ chChunks' = Append(chChunks, SubstringTo(chRemaining, split))
           /\ chRemaining' = SubstringFrom(chRemaining, split)
    /\ UNCHANGED <<chContent, chPc, notChunks>>

\* chunks.push(remaining)
LastChunk ==
    /\ chPc = "while"
    /\ Length(chRemaining) <= MAX_CHUNK
    /\ chChunks' = Append(chChunks, chRemaining)
    /\ chPc' = "done"
    /\ UNCHANGED <<chContent, chRemaining, notChunks>>

NextChunks ==
    \/ SingleChunk
    \/ SplitBegin
    \/ SplitChunk
    \/ LastChunk

\* The loop is run to its end: nothing but the loop itself decides whether
\* its next turn is taken
SpecChunks == InitChunks /\ [][NextChunks]_vars /\ WF_vars(NextChunks)

\* C29: the first chunk of a content longer than MAX_CHUNK ends at the
\* level-2/3 heading nearest to MAX_CHUNK when the content has such a
\* heading, and at the last paragraph break before MAX_CHUNK (if past half
\* of it) or at MAX_CHUNK itself only when it has none.
SplitAtNearestHeading ==
    (chChunks # <<>> /\ Length(chContent) > MAX_CHUNK) =>
        Length(chChunks[1]) =
            IF HeadingMatches(chContent) # {}
            THEN NearestHeading(chContent, MAX_CHUNK)
            ELSE ParagraphOr(chContent, MAX_CHUNK)

\* What the chunks and the remaining text hold together
Pieces == IF chPc = "while" THEN Append(chChunks, chRemaining) ELSE chChunks

\* C30: the chunking of a content longer than MAX_CHUNK comes to its end;
\* every turn of the loop takes a prefix that is not empty off the remaining
\* text, no chunk is longer than MAX_CHUNK, and the chunks, with the text
\* that remains while the loop runs, make up the content in order.
ChunkingTerminates ==
    /\ [](\A k \in DOMAIN chChunks :
              Length(chChunks[k]) > 0 /\ Length(chChunks[k]) <= MAX_CHUNK)
    /\ [](chPc \in {"while", "done"} => ConcatAll(Pieces) = chContent)
    /\ [][chPc = "while" /\ chPc' = "while" =>
              Length(chRemaining') < Length(chRemaining)]_vars
    /\ <>(chPc = "done")

\* A content of three chunks: the first ends at a paragraph break, the
\* second at MAX_CHUNK, in the middle of a text that holds a heading further on
ThreeChunks ==
    /\ chPc = "done"
    /\ Len(chChunks) = 3
    /\ Length(chChunks[1]) = 17996
    /\ Length(chChunks[2]) = MAX_CHUNK
    /\ HeadingMatches(chContent) # {}
    /\ lastIndexOf(chContent, MAX_CHUNK) = 17996

============================================================================
